---- MODULE Spec2Model ----
(***************************************************************************)
(* Tornaris companion app (src/app.js, the first IIFE, lines 1-1229): the  *)
(* session-state engine.  Deck construction, the day/night progression     *)
(* machine with monster combat and tier rewards, the duel resolver and the *)
(* tournament bracket with winner propagation.                             *)
(*                                                                         *)
(* JavaScript arrays are 0-based; the model keeps the program's 0-based    *)
(* indices in the state (eventIndex, monsterDeckIndex, draws of shuffle)   *)
(* and reads a sequence s at a program index i as s[i + 1].                *)
(***************************************************************************)
EXTENDS Integers, Sequences, FiniteSets, TLC

VARIABLES
    catalog,        \* reference data of data.js: MONSTERS, DAY_EVENTS, NIGHT_EVENTS
    phase,          \* state.phase
    previousPhase,  \* state.previousPhase
    options,        \* state.options
    players,        \* state.players
    game,           \* state.game
    duel,           \* state.duel
    monsterCombat,  \* state.monsterCombat
    tournament,     \* state.tournament
    modal,          \* the modal overlay of the page: what it shows, its buttons
    granted,        \* history: how often checkTierCompletion rewarded each tier
    recorded,       \* history: the calls of recordMatchResult, in order
    callArgs,       \* arguments of a pure function under check
    callResult      \* its result

vars == <<catalog, phase, previousPhase, options, players, game, duel,
          monsterCombat, tournament, modal, granted, recorded, callArgs, callResult>>

\* ------------------------------------------------------------------ bounds

\* Monsters a catalog may hold beyond 3 per tier, summed over the tiers.
MaxExtra == 1
\* Most cards the repetition counts of a catalog drawn as an input add up to.
MaxCards == 4
\* Largest number k of an hp entry k or "<k>x" drawn as an input.
MaxHpSpec == 12
\* Largest monsterDeckIndex at which a won combat is still ended.
MaxMonsterIdx == 6
\* Most pending notifications at which a won combat is still ended.
MaxQueue == 2
\* Largest player id toggled as a combatant, and largest combatant score.
MaxCombatantId == 0
MaxCombatScore == 3
\* Largest duel score entered.
MaxScore == 1
\* Largest player id chosen in a fighter select of the duel screen.
MaxSelectId == 0
\* Player i (counted from 0) holds i * GoldStep gold when the tournament begins.
GoldStep == 5

\* ------------------------------------------------------------- null, helpers

\* JavaScript null (player ids are 0, 1, ...; no id is negative).
NULL == -1

\* The element of array s at the program's 0-based index i.
At(s, i) == s[i + 1]

RECURSIVE SumSeq(_)
SumSeq(s) == IF s = <<>> THEN 0 ELSE Head(s) + SumSeq(Tail(s))

\* arr.filter(keep), for a predicate given as the set of the kept elements.
RECURSIVE FilterSeq(_, _)
FilterSeq(s, keep) ==
    IF s = <<>> THEN <<>>
    ELSE IF Head(s) \in keep THEN <<Head(s)>> \o FilterSeq(Tail(s), keep)
         ELSE FilterSeq(Tail(s), keep)

\* arr.slice(0, n)
SliceFront(s, n) == SubSeq(s, 1, IF Len(s) < n THEN Len(s) ELSE n)

\* ------------------------------------------------------------------ shuffle

\* The draws of one shuffle of n elements: draw[i], for i = 1 .. n-1, is the
\* value j = Math.floor(Math.random() * (i + 1)) of the iteration with index i,
\* any of 0 .. i.
RECURSIVE DrawsUpTo(_)
DrawsUpTo(m) ==
    IF m <= 0 THEN {<<>>}
    ELSE {Append(d, j) : d \in DrawsUpTo(m - 1), j \in 0..m}

AllDraws(n) == DrawsUpTo(n - 1)

\* [a[i], a[j]] = [a[j], a[i]]
Swap(a, i, j) == [a EXCEPT ![i + 1] = a[j + 1], ![j + 1] = a[i + 1]]

\* The loop of shuffle, from index i down to 1.
RECURSIVE ShuffleFrom(_, _, _)
ShuffleFrom(a, i, draw) ==
    IF i < 1 THEN a ELSE ShuffleFrom(Swap(a, i, draw[i]), i - 1, draw)

\* shuffle(arr) when Math.random yields the draws draw.
Shuffle(arr, draw) == ShuffleFrom(arr, Len(arr) - 1, draw)

\* ------------------------------------------------------------ reference data

Tiers == <<"duende", "ogro", "golem", "dragon">>

\* An hp entry of a monster: null (special), a number, or a string "<k>x"
\* held as its characters.
HpNull == [kind |-> "null", num |-> 0, chars |-> <<>>]
HpNum(n) == [kind |-> "number", num |-> n, chars |-> <<>>]
HpStr(cs) == [kind |-> "string", num |-> 0, chars |-> cs]

\* The hp entry of the k-th monster of tier number t in a modelled catalog.
CatalogHp(t, k) ==
    IF k = 1 THEN HpNum(t)
    ELSE IF k = 2 THEN HpStr(<<"1", "x">>)
    ELSE IF k = 3 THEN HpNull
    ELSE HpNum(2)

\* MONSTERS with 3 + extra[t] monsters of tier number t, the tiers interleaved.
RECURSIVE MonsterRows(_, _)
MonsterRows(extra, i) ==
    IF i > 20 THEN <<>>
    ELSE LET k == ((i - 1) \div 4) + 1
             t == ((i - 1) % 4) + 1
         IN  (IF k <= 3 + extra[t]
              THEN <<[id |-> i, tier |-> Tiers[t], hp |-> CatalogHp(t, k)]>>
              ELSE <<>>) \o MonsterRows(extra, i + 1)

MonsterCatalog(extra) == MonsterRows(extra, 1)

\* The catalogs an input may be: at least 3 monsters per tier.
ExtraChoices == {e \in [1..4 -> 0..MaxExtra] : e[1] + e[2] + e[3] + e[4] <= MaxExtra}

NoExtra == [t \in 1..4 |-> 0]

\* DAY_EVENTS and NIGHT_EVENTS with the repetition counts c.
DayEvents(c) ==
    << [id |-> 1, name |-> "Dia Normal", count |-> c[1]],
       [id |-> 2, name |-> "Mazmorra Cerrada", count |-> c[2]],
       [id |-> 3, name |-> "Monstruo Legendario", count |-> c[3]] >>

NightEvents(c) == << [id |-> 1, name |-> "Noche Tranquila", count |-> c[4]] >>

CountChoices == {c \in [1..4 -> 0..MaxCards] : c[1] + c[2] + c[3] + c[4] <= MaxCards}

Catalog(extra, c) ==
    [MONSTERS |-> MonsterCatalog(extra), DAY_EVENTS |-> DayEvents(c),
     NIGHT_EVENTS |-> NightEvents(c)]

\* getMonster(id): the catalog row, or the null row.
NoMonster == [id |-> NULL, tier |-> "", hp |-> HpNull]

getMonster(id) ==
    LET hit == {i \in 1..Len(catalog.MONSTERS) : catalog.MONSTERS[i].id = id}
    IN  IF hit = {} THEN NoMonster
        ELSE catalog.MONSTERS[CHOOSE i \in hit : \A j \in hit : i <= j]

\* ------------------------------------------------------------ deck builders

\* MONSTERS.filter(m => m.tier === tier).map(m => m.id)
TierIds(monsters, tier) ==
    LET rows == FilterSeq(monsters, {m \in {monsters[i] : i \in 1..Len(monsters)} : m.tier = tier})
    IN  [i \in 1..Len(rows) |-> rows[i].id]

\* shuffle(ids).slice(0, 3) of one tier
TierPickUnsliced(ids, draw) == Shuffle(ids, draw)

TierPick(ids, draw) == SliceFront(Shuffle(ids, draw), 3)

\* buildMonsterDeck: the loop over the tiers from tier number t on; draws[t] are
\* the draws of the shuffle of tier t.
RECURSIVE BuildMonsterDeckFrom(_, _, _)
BuildMonsterDeckFrom(monsters, t, draws) ==
    IF t > Len(Tiers) THEN <<>>
    ELSE TierPick(TierIds(monsters, Tiers[t]), draws[t])
         \o BuildMonsterDeckFrom(monsters, t + 1, draws)

buildMonsterDeck(monsters, draws) == BuildMonsterDeckFrom(monsters, 1, draws)

\* The draws buildMonsterDeck can make on a catalog: one shuffle per tier.
TierDraws(monsters, t) == AllDraws(Len(TierIds(monsters, Tiers[t])))

MonsterDraws(monsters) ==
    {<<d1, d2, d3, d4>> : d1 \in TierDraws(monsters, 1), d2 \in TierDraws(monsters, 2),
                          d3 \in TierDraws(monsters, 3), d4 \in TierDraws(monsters, 4)}

\* ev.count pushes of one card
RECURSIVE Repeat(_, _)
Repeat(card, n) == IF n <= 0 THEN <<>> ELSE <<card>> \o Repeat(card, n - 1)

\* for (const ev of events) for (i < ev.count) deck.push({type, eventId: ev.id})
RECURSIVE ExpandEvents(_, _)
ExpandEvents(events, type) ==
    IF events = <<>> THEN <<>>
    ELSE Repeat([type |-> type, eventId |-> Head(events).id], Head(events).count)
         \o ExpandEvents(Tail(events), type)

\* deck.findIndex(c => c.type === 'day' && c.eventId === 1), 0-based, -1 if none
NormalIdx(deck) ==
    LET hit == {i \in 1..Len(deck) : deck[i].type = "day" /\ deck[i].eventId = 1}
    IN  IF hit = {} THEN -1 ELSE (CHOOSE i \in hit : \A j \in hit : i <= j) - 1

NormalDayCard == [type |-> "day", eventId |-> 1]

\* The placement of the first card (lines 101-108) without its fallback branch.
PlaceNormalDayNoFallback(deck) ==
    LET normalIdx == NormalIdx(deck)
    IN  IF normalIdx > 0
        THEN <<At(deck, normalIdx)>> \o SubSeq(deck, 1, normalIdx)
             \o SubSeq(deck, normalIdx + 2, Len(deck))
        ELSE deck

\* The placement of the first card: splice and unshift, or the synthesized card.
PlaceNormalDay(deck) ==
    LET normalIdx == NormalIdx(deck)
    IN  IF normalIdx > 0
        THEN <<At(deck, normalIdx)>> \o SubSeq(deck, 1, normalIdx)
             \o SubSeq(deck, normalIdx + 2, Len(deck))
        ELSE IF normalIdx = -1 THEN <<NormalDayCard>> \o deck
        ELSE deck

\* The deck before its shuffle: the day cards, then the night cards.
ExpandedEventDeck(dayEvents, nightEvents) ==
    ExpandEvents(dayEvents, "day") \o ExpandEvents(nightEvents, "night")

buildCombinedEventDeck(dayEvents, nightEvents, draw) ==
    PlaceNormalDay(Shuffle(ExpandedEventDeck(dayEvents, nightEvents), draw))

\* ------------------------------------------------------------------ computeHP

DigitChars == <<"0", "1", "2", "3", "4", "5", "6", "7", "8", "9">>

IsDigit(c) == \E i \in 1..10 : DigitChars[i] = c

DigitVal(c) == (CHOOSE i \in 1..10 : DigitChars[i] = c) - 1

\* The decimal string of n >= 0, as its characters (how data.js writes "<k>x").
RECURSIVE DecimalChars(_)
DecimalChars(n) ==
    IF n < 10 THEN <<DigitChars[n + 1]>>
    ELSE DecimalChars(n \div 10) \o <<DigitChars[(n % 10) + 1]>>

\* parseInt(str): the value of the longest prefix of digits (the inputs all
\* start with a digit, so NaN does not arise).
RECURSIVE ParseDigits(_, _)
ParseDigits(cs, acc) ==
    IF cs = <<>> \/ ~IsDigit(Head(cs)) THEN acc
    ELSE ParseDigits(Tail(cs), 10 * acc + DigitVal(Head(cs)))

parseInt(cs) == ParseDigits(cs, 0)

\* str.endsWith('x')
EndsWithX(cs) == Len(cs) > 0 /\ cs[Len(cs)] = "x"

\* computeHP without the doubling of a legendary monster.
computeHPNoLegendary(monster, playerCount, isLegendary) ==
    IF monster.hp.kind = "null" THEN NULL
    ELSE IF monster.hp.kind = "string" /\ EndsWithX(monster.hp.chars)
         THEN parseInt(monster.hp.chars) * playerCount
         ELSE IF monster.hp.kind = "string" THEN parseInt(monster.hp.chars)
              ELSE monster.hp.num

\* computeHP(monster, playerCount, isLegendary); null is NULL.  Number(hp) of a
\* string of digits is its decimal value.
computeHP(monster, playerCount, isLegendary) ==
    IF monster.hp.kind = "null" THEN NULL
    ELSE LET base == IF monster.hp.kind = "string" /\ EndsWithX(monster.hp.chars)
                     THEN parseInt(monster.hp.chars) * playerCount
                     ELSE IF monster.hp.kind = "string" THEN parseInt(monster.hp.chars)
                          ELSE monster.hp.num
         IN  IF isLegendary THEN base * 2 ELSE base

\* computeHPDisplay: 'Especial' for null, else the number.
computeHPDisplay(monster, playerCount, isLegendary) ==
    LET hp == computeHP(monster, playerCount, isLegendary)
    IN  IF hp = NULL THEN [text |-> "Especial", num |-> 0] ELSE [text |-> "", num |-> hp]

\* --------------------------------------------------------------------- state

\* The objects of defaultState().
DefaultOptions == [digitalMonsters |-> FALSE, digitalEvents |-> FALSE, fullTracking |-> FALSE]

DefaultGame ==
    [eventDeck |-> <<>>, eventIndex |-> 0, currentDay |-> 0, timeOfDay |-> "day",
     monsterDeck |-> <<>>, monsterDeckIndex |-> 0, monsterDefeated |-> FALSE,
     pendingNotifications |-> <<>>]

DefaultDuel ==
    [player1Id |-> NULL, player2Id |-> NULL, score1 |-> 0, score2 |-> 0,
     winnerId |-> NULL, matchId |-> ""]

DefaultMonsterCombat ==
    [monsterId |-> NULL, maxHP |-> 0, currentHP |-> 0, combatantIds |-> <<>>,
     combatantScores |-> <<>>, isLegendary |-> FALSE]

DefaultTournament == [phase |-> "pre", seeds |-> <<>>, rounds |-> <<>>, championId |-> NULL]

\* No modal shown.
NoModal == [kind |-> "none", buttons |-> 0, winnerId |-> NULL, loserId |-> NULL]

NoGrants == [t \in 1..4 |-> 0]

NoCall == [done |-> FALSE, value |-> <<>>]

\* The session before setup, as defaultState() returns it.
DefaultSession ==
    /\ phase = "setup"
    /\ previousPhase = "game"
    /\ options = DefaultOptions
    /\ players = <<>>
    /\ game = DefaultGame
    /\ duel = DefaultDuel
    /\ monsterCombat = DefaultMonsterCombat
    /\ tournament = DefaultTournament
    /\ modal = NoModal
    /\ granted = NoGrants
    /\ recorded = <<>>

sessionVars == <<phase, previousPhase, options, players, game, duel, monsterCombat,
                 tournament, modal, granted, recorded>>

\* ------------------------------------------- specification: buildMonsterDeck

InitMonsterDeck ==
    /\ DefaultSession
    /\ \E extra \in ExtraChoices : catalog = Catalog(extra, [i \in 1..4 |-> 1])
    /\ callArgs = <<>>
    /\ callResult = NoCall

BuildMonsterDeckCall ==
    /\ ~callResult.done
    /\ \E draws \in MonsterDraws(catalog.MONSTERS) :
          callResult' = [done |-> TRUE, value |-> buildMonsterDeck(catalog.MONSTERS, draws)]
    /\ UNCHANGED <<catalog, sessionVars, callArgs>>

NextMonsterDeck == BuildMonsterDeckCall

SpecMonsterDeck == InitMonsterDeck /\ [][NextMonsterDeck]_vars

\* Position p (1-based) of a monster deck belongs to this tier.
TierOfPosition(p) == Tiers[((p - 1) \div 3) + 1]

\* C1: whatever the shuffles draw, buildMonsterDeck returns 12 ids, three per
\* tier in the order duende, ogro, golem, dragon, each id a catalog monster of
\* the tier of its position, and no id twice within a tier group.
C1_MonsterDeckShape ==
    callResult.done =>
        LET deck == callResult.value
        IN  /\ Len(deck) = 12
            /\ \A p \in 1..Len(deck) :
                  /\ getMonster(deck[p]).id = deck[p]
                  /\ getMonster(deck[p]).tier = TierOfPosition(p)
            /\ \A p, q \in 1..Len(deck) :
                  (p # q /\ TierOfPosition(p) = TierOfPosition(q)) => deck[p] # deck[q]

\* A deck built from a catalog with a fourth dragon, one dragon left out and
\* the dragons not in catalog order.
C1_Witness ==
    /\ callResult.done
    /\ Len(TierIds(catalog.MONSTERS, "dragon")) = 4
    /\ Len(callResult.value) = 12
    /\ callResult.value[10] > callResult.value[11]

\* ------------------------------------- specification: buildCombinedEventDeck

InitEventDeck ==
    /\ DefaultSession
    /\ \E c \in CountChoices : catalog = Catalog(NoExtra, c)
    /\ callArgs = <<>>
    /\ callResult = NoCall

BuildCombinedEventDeckCall ==
    /\ ~callResult.done
    /\ \E draw \in AllDraws(Len(ExpandedEventDeck(catalog.DAY_EVENTS, catalog.NIGHT_EVENTS))) :
          callResult' = [done |-> TRUE,
                         value |-> buildCombinedEventDeck(catalog.DAY_EVENTS,
                                                          catalog.NIGHT_EVENTS, draw)]
    /\ UNCHANGED <<catalog, sessionVars, callArgs>>

NextEventDeck == BuildCombinedEventDeckCall

SpecEventDeck == InitEventDeck /\ [][NextEventDeck]_vars

\* The sum of the configured repetition counts of a catalog.
TotalCount ==
    SumSeq([i \in 1..Len(catalog.DAY_EVENTS) |-> catalog.DAY_EVENTS[i].count])
    + SumSeq([i \in 1..Len(catalog.NIGHT_EVENTS) |-> catalog.NIGHT_EVENTS[i].count])

\* The catalog configures no day card with id 1.
NoNormalDayConfigured ==
    \A i \in 1..Len(catalog.DAY_EVENTS) :
        catalog.DAY_EVENTS[i].id = 1 => catalog.DAY_EVENTS[i].count = 0

\* C2: whatever the shuffle draws, the first card of the combined event deck
\* is {day, 1}, and the deck is as long as the sum of the repetition counts,
\* plus one exactly when the catalog gave no day card with id 1.
C2_EventDeckFirstAndLength ==
    callResult.done =>
        /\ Len(callResult.value) >= 1
        /\ callResult.value[1] = NormalDayCard
        /\ Len(callResult.value) = TotalCount + (IF NoNormalDayConfigured THEN 1 ELSE 0)

\* The fallback: no day card with id 1 was configured, a night card with id 1
\* is in the deck, and the deck is one longer than the counts.
C2_Witness ==
    /\ callResult.done
    /\ NoNormalDayConfigured
    /\ Len(callResult.value) = TotalCount + 1
    /\ \E i \in 2..Len(callResult.value) : callResult.value[i] = [type |-> "night", eventId |-> 1]

\* ------------------------------------------------- specification: computeHP

\* The monster whose hp entry has the given form for the number k.
MonsterWithHp(form, k) ==
    [id |-> 1, tier |-> "duende",
     hp |-> IF form = "special" THEN HpNull
            ELSE IF form = "multiplier" THEN HpStr(DecimalChars(k) \o <<"x">>)
            ELSE IF form = "digits" THEN HpStr(DecimalChars(k))
            ELSE HpNum(k)]

InitHP ==
    /\ DefaultSession
    /\ catalog = Catalog(NoExtra, [i \in 1..4 |-> 1])
    /\ \E form \in {"special", "multiplier", "digits", "number"}, k \in 0..MaxHpSpec,
          n \in 3..6, leg \in BOOLEAN :
          /\ form = "special" => k = 0
          /\ callArgs = [form |-> form, k |-> k, playerCount |-> n, isLegendary |-> leg]
    /\ callResult = NoCall

ComputeHPCall ==
    /\ ~callResult.done
    /\ callResult' =
          [done |-> TRUE,
           value |-> computeHP(MonsterWithHp(callArgs.form, callArgs.k),
                               callArgs.playerCount, callArgs.isLegendary),
           display |-> computeHPDisplay(MonsterWithHp(callArgs.form, callArgs.k),
                                        callArgs.playerCount, callArgs.isLegendary)]
    /\ UNCHANGED <<catalog, sessionVars, callArgs>>

NextHP == ComputeHPCall

SpecHP == InitHP /\ [][NextHP]_vars

Characters == <<"nyra", "celeste", "brann", "lira", "orik", "vex">>

CharMaxMana(characterId) == IF characterId = "celeste" THEN 5 ELSE 4

\* The roster startGame leaves for n players, player i of class i + 1, with
\* the gold each has collected by the end of the game.
StartedPlayers(n, gold) ==
    [i \in 1..n |->
        [id |-> i - 1, characterId |-> Characters[i], gold |-> gold[i],
         mana |-> CharMaxMana(Characters[i]), maxMana |-> CharMaxMana(Characters[i])]]

PlayerIds == {players[i].id : i \in 1..Len(players)}

\* state.players.find(p => p.id === pid); pid is the id of a player
PlayerOf(pid) == players[CHOOSE i \in 1..Len(players) : players[i].id = pid]

\* ---------------------------------------------------------------- tournament

NoFeed == [matchId |-> "", slot |-> 0]

Feed(matchId, slot) == [matchId |-> matchId, slot |-> slot]

Match(id, p1, p2, adv, f1, f2) ==
    [id |-> id, player1Id |-> p1, player2Id |-> p2, advantagePlayerId |-> adv,
     winnerId |-> NULL, feedsFrom |-> <<f1, f2>>]

Round(name, matches) == [name |-> name, matches |-> matches]

\* buildBracket3p(s); s holds the player ids by ascending seed rank, s[0] first
buildBracket3p(s) ==
    << Round("Semifinal", << Match("sf1", At(s, 1), At(s, 2), At(s, 1), NoFeed, NoFeed) >>),
       Round("Final", << Match("final", At(s, 0), NULL, At(s, 0), NoFeed, Feed("sf1", 2)) >>) >>

\* buildBracket4p with the second semifinal pairing seed1 with seed3.
buildBracket4pCrossed(s) ==
    << Round("Semifinal", << Match("sf1", At(s, 0), At(s, 2), At(s, 0), NoFeed, NoFeed),
                             Match("sf2", At(s, 1), At(s, 3), At(s, 1), NoFeed, NoFeed) >>),
       Round("Final", << Match("final", NULL, NULL, NULL, Feed("sf1", 1), Feed("sf2", 1)) >>) >>

buildBracket4p(s) ==
    << Round("Semifinal", << Match("sf1", At(s, 0), At(s, 3), At(s, 0), NoFeed, NoFeed),
                             Match("sf2", At(s, 1), At(s, 2), At(s, 1), NoFeed, NoFeed) >>),
       Round("Final", << Match("final", NULL, NULL, NULL, Feed("sf1", 1), Feed("sf2", 1)) >>) >>

buildBracket5p(s) ==
    << Round("Cuartos", << Match("qf1", At(s, 3), At(s, 4), At(s, 3), NoFeed, NoFeed) >>),
       Round("Semifinal", << Match("sf1", At(s, 1), NULL, At(s, 1), NoFeed, Feed("qf1", 1)),
                             Match("sf2", At(s, 2), NULL, At(s, 2), NoFeed, Feed("qf1", 1)) >>),
       Round("Final", << Match("final", At(s, 0), NULL, At(s, 0), NoFeed, Feed("sf1", 1)) >>) >>

buildBracket6p(s) ==
    << Round("Cuartos", << Match("qf1", At(s, 0), At(s, 1), At(s, 0), NoFeed, NoFeed),
                           Match("qf2", At(s, 2), At(s, 3), At(s, 2), NoFeed, NoFeed),
                           Match("qf3", At(s, 4), At(s, 5), At(s, 4), NoFeed, NoFeed) >>),
       Round("Semifinal", << Match("sf1", NULL, NULL, NULL, Feed("qf2", 1), Feed("qf3", 1)) >>),
       Round("Final", << Match("final", NULL, NULL, NULL, Feed("qf1", 1), Feed("sf1", 1)) >>) >>

\* seeds.slice().sort((a, b) => a.seedRank - b.seedRank): a stable insertion
RECURSIVE InsertByRank(_, _)
InsertByRank(sorted, seed) ==
    IF sorted = <<>> THEN <<seed>>
    ELSE IF seed.seedRank < Head(sorted).seedRank THEN <<seed>> \o sorted
         ELSE <<Head(sorted)>> \o InsertByRank(Tail(sorted), seed)

RECURSIVE SortByRank(_)
SortByRank(seeds) ==
    IF seeds = <<>> THEN <<>>
    ELSE InsertByRank(SortByRank(SubSeq(seeds, 1, Len(seeds) - 1)), seeds[Len(seeds)])

\* The ranks counted from 0: seedRank = rank.
RECURSIVE AssignRanksFromZero(_, _, _)
AssignRanksFromZero(seeds, order, rank) ==
    IF rank >= Len(order) THEN seeds
    ELSE AssignRanksFromZero([seeds EXCEPT ![At(order, rank) + 1].seedRank = rank],
                             order, rank + 1)

\* order.forEach((origIdx, rank) => { t.seeds[origIdx].seedRank = rank + 1; })
RECURSIVE AssignRanks(_, _, _)
AssignRanks(seeds, order, rank) ==
    IF rank >= Len(order) THEN seeds
    ELSE AssignRanks([seeds EXCEPT ![At(order, rank) + 1].seedRank = rank + 1], order, rank + 1)

\* The switch on the player count n of startTournament.
BracketFor(n, s) ==
    IF n = 3 THEN buildBracket3p(s)
    ELSE IF n = 4 THEN buildBracket4p(s)
    ELSE IF n = 5 THEN buildBracket5p(s)
    ELSE IF n = 6 THEN buildBracket6p(s)
    ELSE buildBracket4p(SliceFront(s, 4))

\* startTournament() on tournament t when the shuffle makes the draws draw.
startTournament(t, n, draw) ==
    LET order  == Shuffle([i \in 1..Len(t.seeds) |-> i - 1], draw)
        ranked == AssignRanks(t.seeds, order, 0)
        sorted == SortByRank(ranked)
        seeds  == [i \in 1..Len(sorted) |-> sorted[i].playerId]
    IN  [t EXCEPT !.seeds = ranked, !.rounds = BracketFor(n, seeds), !.phase = "bracket"]

\* All matches of the rounds, in round order.
RECURSIVE AllMatches(_)
AllMatches(rounds) ==
    IF rounds = <<>> THEN <<>> ELSE Head(rounds).matches \o AllMatches(Tail(rounds))

MatchIds(rounds) == {AllMatches(rounds)[i].id : i \in 1..Len(AllMatches(rounds))}

\* findMatch(matchId) on the rounds; the null match when there is none
NoMatch == Match("", NULL, NULL, NULL, NoFeed, NoFeed)

findMatchIn(rounds, matchId) ==
    LET ms  == AllMatches(rounds)
        hit == {i \in 1..Len(ms) : ms[i].id = matchId}
    IN  IF hit = {} THEN NoMatch ELSE ms[CHOOSE i \in hit : \A j \in hit : i <= j]

findMatch(matchId) == findMatchIn(tournament.rounds, matchId)

\* propagateWinner that writes the first slot whichever slot the feed names.
PropagateIntoFirstSlot(m, matchId, winnerId) ==
    [m EXCEPT !.player1Id =
        IF m.feedsFrom[1].matchId = matchId \/ m.feedsFrom[2].matchId = matchId
        THEN winnerId ELSE @]

\* propagateWinner that recomputes the advantage of a match it fills.
PropagateIntoNewAdvantage(m, matchId, winnerId) ==
    [m EXCEPT !.player1Id = IF m.feedsFrom[1].matchId = matchId /\ m.feedsFrom[1] # NoFeed
                            THEN winnerId ELSE @,
              !.player2Id = IF m.feedsFrom[2].matchId = matchId /\ m.feedsFrom[2] # NoFeed
                            THEN winnerId ELSE @,
              !.advantagePlayerId =
                            IF \/ m.feedsFrom[1].matchId = matchId /\ m.feedsFrom[1] # NoFeed
                               \/ m.feedsFrom[2].matchId = matchId /\ m.feedsFrom[2] # NoFeed
                            THEN winnerId ELSE @]

\* One match after propagateWinner(matchId, winnerId): slot 0 is player1Id,
\* slot 1 is player2Id.
PropagateInto(m, matchId, winnerId) ==
    [m EXCEPT !.player1Id = IF m.feedsFrom[1].matchId = matchId /\ m.feedsFrom[1] # NoFeed
                            THEN winnerId ELSE @,
              !.player2Id = IF m.feedsFrom[2].matchId = matchId /\ m.feedsFrom[2] # NoFeed
                            THEN winnerId ELSE @]

propagateWinner(rounds, matchId, winnerId) ==
    [r \in 1..Len(rounds) |->
        [rounds[r] EXCEPT !.matches =
            [k \in 1..Len(@) |-> PropagateInto(@[k], matchId, winnerId)]]]

\* A recordMatchResult that stores the winner on every match.
SetWinnerEverywhere(rounds, matchId, winnerId) ==
    [r \in 1..Len(rounds) |->
        [rounds[r] EXCEPT !.matches =
            [k \in 1..Len(@) |-> [@[k] EXCEPT !.winnerId = winnerId]]]]

\* if (match) match.winnerId = winnerId
SetWinner(rounds, matchId, winnerId) ==
    [r \in 1..Len(rounds) |->
        [rounds[r] EXCEPT !.matches =
            [k \in 1..Len(@) |->
                IF @[k].id = matchId THEN [@[k] EXCEPT !.winnerId = winnerId] ELSE @[k]]]]

\* recordMatchResult that forgets the champion on the final.
recordMatchResultNoChampion(t, matchId, winnerId) ==
    LET marked == SetWinner(t.rounds, matchId, winnerId)
    IN  IF matchId = "final"
        THEN [t EXCEPT !.rounds = marked, !.phase = "champion"]
        ELSE [t EXCEPT !.rounds = propagateWinner(marked, matchId, winnerId)]

\* recordMatchResult that leaves the phase as it is on the Final.
recordMatchResultKeepPhase(t, matchId, winnerId) ==
    LET marked == SetWinner(t.rounds, matchId, winnerId)
    IN  IF matchId = "final"
        THEN [t EXCEPT !.rounds = marked, !.championId = winnerId]
        ELSE [t EXCEPT !.rounds = propagateWinner(marked, matchId, winnerId)]

\* recordMatchResult(matchId, winnerId) on tournament t
recordMatchResult(t, matchId, winnerId) ==
    LET marked == SetWinner(t.rounds, matchId, winnerId)
    IN  IF matchId = "final"
        THEN [t EXCEPT !.rounds = marked, !.championId = winnerId, !.phase = "champion"]
        ELSE [t EXCEPT !.rounds = propagateWinner(marked, matchId, winnerId)]

\* A tournament set up with the ranks already given in roster order.
TournamentSetupRanked ==
    [phase |-> "pre",
     seeds |-> [i \in 1..Len(players) |-> [playerId |-> players[i].id, seedRank |-> i]],
     rounds |-> <<>>, championId |-> NULL]

\* The tournament advanceTime sets up: one seed per player, rank unset.
TournamentSetup ==
    [phase |-> "pre",
     seeds |-> [i \in 1..Len(players) |-> [playerId |-> players[i].id, seedRank |-> NULL]],
     rounds |-> <<>>, championId |-> NULL]

\* ------------------------------------------------------------- modal, screens

OneButton(kind) == [kind |-> kind, buttons |-> 1, winnerId |-> NULL, loserId |-> NULL]

NyraModal(winnerId, loserId) ==
    [kind |-> "nyra", buttons |-> 2, winnerId |-> winnerId, loserId |-> loserId]

\* flushNotifications(): the modal after it, m being the modal before it.
flushNotifications(queue, m) == IF queue = <<>> THEN m ELSE OneButton("notification")

\* The modal after navigateTo(target) and its renderAll: renderGame ends with
\* flushNotifications, the other screens show no modal of their own.
ModalAfterRender(target, queue, m) ==
    IF target = "game" THEN flushNotifications(queue, m) ELSE m

\* ---------------------------------------------------------------------- duel

\* The Math.min(7, loser.gold) of the Nyra transfer.
NyraSteal == 7

\* The transfer without its cap at the loser's gold.
NyraTransferUncapped(ps, winnerId, loserId) ==
    LET paid == [i \in 1..Len(ps) |->
                    IF ps[i].id = loserId THEN [ps[i] EXCEPT !.gold = @ - NyraSteal]
                    ELSE ps[i]]
    IN  [i \in 1..Len(ps) |->
            IF paid[i].id = winnerId THEN [paid[i] EXCEPT !.gold = @ + NyraSteal]
            ELSE paid[i]]

\* The transfer of the 'Si' button: stolen = Math.min(7, loser.gold), then
\* loser.gold -= stolen, then winner.gold += stolen.
NyraTransfer(ps, winnerId, loserId) ==
    LET stolen == IF PlayerOf(loserId).gold < NyraSteal THEN PlayerOf(loserId).gold ELSE NyraSteal
        paid   == [i \in 1..Len(ps) |->
                      IF ps[i].id = loserId THEN [ps[i] EXCEPT !.gold = @ - stolen]
                      ELSE ps[i]]
    IN  [i \in 1..Len(ps) |->
            IF paid[i].id = winnerId THEN [paid[i] EXCEPT !.gold = @ + stolen]
            ELSE paid[i]]

\* handlePostDuel(winnerId): recordMatchResult when the duel has a match id,
\* which ends with navigateTo('tournament').
handlePostDuel(winnerId) ==
    IF duel.matchId # ""
    THEN /\ tournament' = recordMatchResult(tournament, duel.matchId, winnerId)
         /\ recorded' = Append(recorded, [matchId |-> duel.matchId, winnerId |-> winnerId])
         /\ phase' = "tournament"
    ELSE UNCHANGED <<tournament, recorded, phase>>

\* The winner declareWinner picks with the comparison reversed.
DuelWinnerLower(s1, s2) == IF s1 < s2 THEN duel.player1Id ELSE duel.player2Id

\* winNum = s1 > s2 ? 1 : 2, as the player id
DuelWinner(s1, s2) == IF s1 > s2 THEN duel.player1Id ELSE duel.player2Id

\* declareWinner that treats a tie as a win of the second fighter.
declareWinnerNoTie ==
    /\ phase = "duel" /\ modal.kind = "none"
    /\ LET winnerId == DuelWinner(duel.score1, duel.score2)
       IN  /\ duel' = [duel EXCEPT !.winnerId = winnerId]
           /\ modal' = modal
           /\ players' = players
           /\ handlePostDuel(winnerId)
    /\ UNCHANGED <<catalog, previousPhase, options, game, monsterCombat, granted,
                   callArgs, callResult>>

\* declareWinner(): the 'Declarar Ganador' button of the duel screen
declareWinner ==
    /\ phase = "duel" /\ modal.kind = "none"
    /\ IF duel.score1 = duel.score2
       THEN /\ modal' = OneButton("tie")
            /\ UNCHANGED <<duel, players, tournament, recorded, phase>>
       ELSE LET winnerId == DuelWinner(duel.score1, duel.score2)
                loserId  == IF winnerId = duel.player1Id THEN duel.player2Id
                            ELSE duel.player1Id
            IN  /\ duel' = [duel EXCEPT !.winnerId = winnerId]
                /\ players' = players
                /\ IF /\ options.fullTracking
                      /\ winnerId \in PlayerIds /\ loserId \in PlayerIds
                      /\ PlayerOf(winnerId).characterId = "nyra"
                   THEN /\ modal' = NyraModal(winnerId, loserId)
                        /\ UNCHANGED <<tournament, recorded, phase>>
                   ELSE /\ modal' = modal
                        /\ handlePostDuel(winnerId)
    /\ UNCHANGED <<catalog, previousPhase, options, game, monsterCombat, granted,
                   callArgs, callResult>>

\* The 'Si' button of the Nyra modal.
NyraYes ==
    /\ modal.kind = "nyra"
    /\ modal' = NoModal
    /\ players' = NyraTransfer(players, modal.winnerId, modal.loserId)
    /\ handlePostDuel(modal.winnerId)
    /\ UNCHANGED <<catalog, previousPhase, options, game, duel, monsterCombat, granted,
                   callArgs, callResult>>

\* The 'No' button of the Nyra modal.
NyraNo ==
    /\ modal.kind = "nyra"
    /\ modal' = NoModal
    /\ handlePostDuel(modal.winnerId)
    /\ UNCHANGED <<catalog, previousPhase, options, players, game, duel, monsterCombat,
                   granted, callArgs, callResult>>

\* The 'OK' button of the tie modal, which has no action.
TieOk ==
    /\ modal.kind = "tie"
    /\ modal' = NoModal
    /\ UNCHANGED <<catalog, phase, previousPhase, options, players, game, duel,
                   monsterCombat, tournament, granted, recorded, callArgs, callResult>>

\* An overlay click that closes a modal whatever its number of buttons.
ModalOverlayClickAnyModal ==
    /\ modal.kind # "none"
    /\ modal' = NoModal
    /\ game' = [game EXCEPT !.pendingNotifications = IF @ = <<>> THEN @ ELSE Tail(@)]
    /\ UNCHANGED <<catalog, phase, previousPhase, options, players, duel, monsterCombat,
                   tournament, granted, recorded, callArgs, callResult>>

\* A click on the overlay outside the modal: a modal with one button closes,
\* and the head of the pending notifications is dropped.
ModalOverlayClick ==
    /\ modal.kind # "none" /\ modal.buttons = 1
    /\ modal' = NoModal
    /\ game' = [game EXCEPT !.pendingNotifications = IF @ = <<>> THEN @ ELSE Tail(@)]
    /\ UNCHANGED <<catalog, phase, previousPhase, options, players, duel, monsterCombat,
                   tournament, granted, recorded, callArgs, callResult>>

\* The + and - buttons of a fighter: setDuelScore(f, getDuelScore(f) + delta).
ScoreButton ==
    /\ phase = "duel" /\ modal.kind = "none"
    /\ \E num \in {1, 2}, delta \in {1, -1} :
          LET old == IF num = 1 THEN duel.score1 ELSE duel.score2
              val == IF old + delta < 0 THEN 0 ELSE old + delta
          IN  /\ val <= MaxScore
              /\ duel' = IF num = 1 THEN [duel EXCEPT !.score1 = val]
                         ELSE [duel EXCEPT !.score2 = val]
    /\ UNCHANGED <<catalog, phase, previousPhase, options, players, game, monsterCombat,
                   tournament, modal, granted, recorded, callArgs, callResult>>

\* A score typed into its field (the 'input' listener).
ScoreInput ==
    /\ phase = "duel" /\ modal.kind = "none"
    /\ \E num \in {1, 2}, val \in 0..MaxScore :
          duel' = IF num = 1 THEN [duel EXCEPT !.score1 = val] ELSE [duel EXCEPT !.score2 = val]
    /\ UNCHANGED <<catalog, phase, previousPhase, options, players, game, monsterCombat,
                   tournament, modal, granted, recorded, callArgs, callResult>>

\* The 'Reiniciar' button.
ResetDuel ==
    /\ phase = "duel" /\ modal.kind = "none"
    /\ duel' = [duel EXCEPT !.score1 = 0, !.score2 = 0, !.winnerId = NULL]
    /\ UNCHANGED <<catalog, phase, previousPhase, options, players, game, monsterCombat,
                   tournament, modal, granted, recorded, callArgs, callResult>>

\* A change of a fighter select: populateDuelSelect offers every player but
\* the other fighter.
DuelSelect ==
    /\ phase = "duel" /\ modal.kind = "none"
    /\ \E num \in {1, 2}, pid \in PlayerIds \cap 0..MaxSelectId :
          /\ pid # (IF num = 1 THEN duel.player2Id ELSE duel.player1Id)
          /\ pid # (IF num = 1 THEN duel.player1Id ELSE duel.player2Id)
          /\ duel' = IF num = 1 THEN [duel EXCEPT !.player1Id = pid]
                     ELSE [duel EXCEPT !.player2Id = pid]
    /\ UNCHANGED <<catalog, phase, previousPhase, options, players, game, monsterCombat,
                   tournament, modal, granted, recorded, callArgs, callResult>>

\* The back button of the duel screen: navigateTo(state.previousPhase || 'game').
DuelBack ==
    /\ phase = "duel" /\ modal.kind = "none"
    /\ phase' = previousPhase
    /\ modal' = ModalAfterRender(previousPhase, game.pendingNotifications, modal)
    /\ UNCHANGED <<catalog, previousPhase, options, players, game, duel, monsterCombat,
                   tournament, granted, recorded, callArgs, callResult>>

\* ------------------------------------------------------- tournament actions

\* The 'Generar Bracket' button with the draws of the seeding shuffle from D.
StartTournamentFrom(D) ==
    /\ phase = "tournament" /\ tournament.phase = "pre" /\ modal.kind = "none"
    /\ \E draw \in D : tournament' = startTournament(tournament, Len(players), draw)
    /\ UNCHANGED <<catalog, phase, previousPhase, options, players, game, duel,
                   monsterCombat, modal, granted, recorded, callArgs, callResult>>

\* A bracket that offers 'Pelear' on every match whose two slots hold players,
\* decided or not.
PlayableAgain(m) == m.player1Id \in PlayerIds /\ m.player2Id \in PlayerIds

\* renderBracket shows 'Pelear' on a match without winner whose two slots
\* hold players.
Playable(m) ==
    m.winnerId = NULL /\ m.player1Id \in PlayerIds /\ m.player2Id \in PlayerIds

\* A 'Pelear' button shown on every match without winner, its slots filled
\* or not.
PelearUnfilled ==
    /\ phase = "tournament" /\ tournament.phase = "bracket" /\ modal.kind = "none"
    /\ \E id \in MatchIds(tournament.rounds) :
          LET m == findMatch(id)
          IN  /\ m.winnerId = NULL
              /\ duel' = [player1Id |-> m.player1Id, player2Id |-> m.player2Id,
                          score1 |-> 0, score2 |-> 0, winnerId |-> NULL, matchId |-> m.id]
    /\ previousPhase' = "tournament"
    /\ phase' = "duel"
    /\ UNCHANGED <<catalog, options, players, game, monsterCombat, tournament, modal,
                   granted, recorded, callArgs, callResult>>

\* The 'Pelear' button of a match.
Pelear ==
    /\ phase = "tournament" /\ tournament.phase = "bracket" /\ modal.kind = "none"
    /\ \E id \in MatchIds(tournament.rounds) :
          LET m == findMatch(id)
          IN  /\ Playable(m)
              /\ duel' = [player1Id |-> m.player1Id, player2Id |-> m.player2Id,
                          score1 |-> 0, score2 |-> 0, winnerId |-> NULL, matchId |-> m.id]
    /\ previousPhase' = "tournament"
    /\ phase' = "duel"
    /\ UNCHANGED <<catalog, options, players, game, monsterCombat, tournament, modal,
                   granted, recorded, callArgs, callResult>>

\* ----------------------------------------- specification: startTournament

\* The draws that leave an array in place, and those that always draw 0.
KeepDraws(n) == [i \in 1..(n - 1) |-> i]

ZeroDraws(n) == [i \in 1..(n - 1) |-> 0]

\* A game that has run to its end: a deck of the one card {day, 1}, advanced
\* past its last card.
EndedGame ==
    [eventDeck |-> <<NormalDayCard>>, eventIndex |-> 1, currentDay |-> 1, timeOfDay |-> "day",
     monsterDeck |-> buildMonsterDeck(MonsterCatalog(NoExtra), [t \in 1..4 |-> KeepDraws(3)]),
     monsterDeckIndex |-> 0, monsterDefeated |-> FALSE, pendingNotifications |-> <<>>]

\* The session as advanceTime leaves it on entering the tournament, for a
\* roster of 3 to 6 players.
InitTournament ==
    /\ catalog = Catalog(NoExtra, [i \in 1..4 |-> IF i = 1 THEN 1 ELSE 0])
    /\ phase = "tournament"
    /\ previousPhase = "game"
    /\ \E tracking \in BOOLEAN : options = [DefaultOptions EXCEPT !.fullTracking = tracking]
    /\ \E n \in 3..6 : players = StartedPlayers(n, [i \in 1..n |-> (i - 1) * GoldStep])
    /\ game = EndedGame
    /\ duel = DefaultDuel
    /\ monsterCombat = DefaultMonsterCombat
    /\ tournament = TournamentSetup
    /\ modal = NoModal
    /\ granted = NoGrants
    /\ recorded = <<>>
    /\ callArgs = <<>>
    /\ callResult = NoCall

StartTournament == StartTournamentFrom(AllDraws(Len(players)))

NextBracket == StartTournament

SpecBracket == InitTournament /\ [][NextBracket]_vars

\* ------------------------------------- specification: tournament and duels

StartTournamentSampled == StartTournamentFrom({KeepDraws(Len(players)), ZeroDraws(Len(players))})

NextTournament ==
    \/ StartTournamentSampled
    \/ Pelear
    \/ DuelSelect
    \/ ScoreButton
    \/ ScoreInput
    \/ ResetDuel
    \/ DuelBack
    \/ declareWinner
    \/ NyraYes
    \/ NyraNo
    \/ TieOk
    \/ ModalOverlayClick

SpecTournament == InitTournament /\ [][NextTournament]_vars

\* ---------------------------------------------------------------------- game

\* currentEvent(): the catalog event of the deck entry at the cursor, with
\* its type; the null event when the cursor is past the deck or the id unknown.
NoEvent == [id |-> NULL, name |-> "", type |-> ""]

currentEvent ==
    IF game.eventIndex >= Len(game.eventDeck) THEN NoEvent
    ELSE LET entry  == At(game.eventDeck, game.eventIndex)
             events == IF entry.type = "day" THEN catalog.DAY_EVENTS ELSE catalog.NIGHT_EVENTS
             hit    == {i \in 1..Len(events) : events[i].id = entry.eventId}
         IN  IF hit = {} THEN NoEvent
             ELSE LET ev == events[CHOOSE i \in hit : \A j \in hit : i <= j]
                  IN  [id |-> ev.id, name |-> ev.name, type |-> entry.type]

\* g.monsterDeck[g.monsterDeckIndex], null past the end of the deck
CurrentMonsterId ==
    IF game.monsterDeckIndex < Len(game.monsterDeck)
    THEN At(game.monsterDeck, game.monsterDeckIndex) ELSE NULL

\* renderMonsterSection shows the monster, with its 'Pelear' and 'Saltar'
\* buttons, only by day with digital monsters on, outside Mazmorra Cerrada,
\* while the day's monster is not dealt with and the deck has a monster left.
MonsterSectionShown ==
    /\ options.digitalMonsters
    /\ game.timeOfDay = "day"
    /\ currentEvent.name # "Mazmorra Cerrada"
    /\ ~game.monsterDefeated
    /\ CurrentMonsterId # NULL
    /\ getMonster(CurrentMonsterId) # NoMonster

\* The 0-based deck positions of the monsters of a tier.
TierIndices(deck, tier) == {i \in 0..(Len(deck) - 1) : getMonster(At(deck, i)).tier = tier}

MaxOf(S) == CHOOSE x \in S : \A y \in S : y <= x

TierNumber(tier) == CHOOSE t \in 1..4 : Tiers[t] = tier

\* The condition of checkTierCompletion: currentIdx > maxTierIdx && maxTierIdx >= 0
TierComplete(deck, currentIdx, tier) ==
    /\ TierIndices(deck, tier) # {}
    /\ currentIdx > MaxOf(TierIndices(deck, tier))

\* for (const p of state.players) { p.maxMana++; p.mana = Math.min(p.mana + 1, p.maxMana); }
RewardMana(ps) ==
    [i \in 1..Len(ps) |->
        [ps[i] EXCEPT !.maxMana = @ + 1,
                      !.mana = IF ps[i].mana + 1 < ps[i].maxMana + 1 THEN ps[i].mana + 1
                               ELSE ps[i].maxMana + 1]]

\* openMonsterCombat(): the 'Pelear' button of the monster section
openMonsterCombat ==
    /\ phase = "game" /\ modal.kind = "none"
    /\ MonsterSectionShown
    /\ LET monster     == getMonster(CurrentMonsterId)
           isLegendary == currentEvent.name = "Monstruo Legendario"
           hp          == computeHP(monster, Len(players), isLegendary)
           maxHP       == IF hp = NULL THEN 0 ELSE hp
       IN  monsterCombat' =
              [monsterId |-> CurrentMonsterId, maxHP |-> maxHP, currentHP |-> maxHP,
               combatantIds |-> <<>>, combatantScores |-> <<>>, isLegendary |-> isLegendary]
    /\ phase' = "monsterCombat"
    /\ UNCHANGED <<catalog, previousPhase, options, players, game, duel, tournament, modal,
                   granted, recorded, callArgs, callResult>>

\* recalcMonsterHP(): maxHP minus the scores of the combatants
RECURSIVE TotalDamage(_, _)
TotalDamage(ids, scores) ==
    IF ids = <<>> THEN 0 ELSE scores[Head(ids)] + TotalDamage(Tail(ids), scores)

\* recalcMonsterHP that subtracts the damage from the HP left.
recalcMonsterHPFromCurrent(mc) ==
    [mc EXCEPT !.currentHP = mc.currentHP - TotalDamage(mc.combatantIds, mc.combatantScores)]

\* mc.currentHP = mc.maxHP - totalDmg
recalcMonsterHP(mc) == [mc EXCEPT !.currentHP = mc.maxHP - TotalDamage(mc.combatantIds, mc.combatantScores)]

InSeq(x, s) == \E i \in 1..Len(s) : s[i] = x

\* The change of the combatant checkbox of one of the players pids.
CombatToggleAmong(pids) ==
    /\ phase = "monsterCombat" /\ modal.kind = "none"
    /\ \E pid \in pids :
          LET mc == monsterCombat
          IN  monsterCombat' =
                IF ~InSeq(pid, mc.combatantIds)
                THEN recalcMonsterHP([mc EXCEPT
                        !.combatantIds = Append(@, pid),
                        !.combatantScores = [q \in (DOMAIN @) \cup {pid} |->
                                                IF q \in DOMAIN @ THEN @[q] ELSE 0]])
                ELSE recalcMonsterHP([mc EXCEPT
                        !.combatantIds = FilterSeq(@, {@[i] : i \in 1..Len(@)} \ {pid}),
                        !.combatantScores = [q \in (DOMAIN @) \ {pid} |-> @[q]]])
    /\ UNCHANGED <<catalog, phase, previousPhase, options, players, game, duel, tournament,
                   modal, granted, recorded, callArgs, callResult>>

\* The change of a combatant checkbox of the combat screen.
CombatToggle == CombatToggleAmong(PlayerIds \cap 0..MaxCombatantId)

\* adjustCombatantScore(pid, delta): the + and - buttons of a combatant row
adjustCombatantScore ==
    /\ phase = "monsterCombat" /\ modal.kind = "none"
    /\ \E i \in 1..Len(monsterCombat.combatantIds), delta \in {1, -1} :
          LET pid == monsterCombat.combatantIds[i]
              old == monsterCombat.combatantScores[pid]
              val == IF old + delta < 0 THEN 0 ELSE old + delta
          IN  /\ val <= MaxCombatScore
              /\ monsterCombat' =
                    recalcMonsterHP([monsterCombat EXCEPT !.combatantScores[pid] = val])
    /\ UNCHANGED <<catalog, phase, previousPhase, options, players, game, duel, tournament,
                   modal, granted, recorded, callArgs, callResult>>

\* endMonsterCombat(): the 'Terminar' button of the combat screen
endMonsterCombat ==
    /\ phase = "monsterCombat" /\ modal.kind = "none"
    /\ IF monsterCombat.currentHP <= 0
       THEN LET tier   == getMonster(monsterCombat.monsterId).tier
                newIdx == game.monsterDeckIndex + 1
                done   == tier # "" /\ TierComplete(game.monsterDeck, newIdx, tier)
            IN  /\ game.monsterDeckIndex < MaxMonsterIdx
                /\ Len(game.pendingNotifications) < MaxQueue
                /\ game' = [game EXCEPT
                      !.monsterDefeated = TRUE,
                      !.monsterDeckIndex = newIdx,
                      !.pendingNotifications = IF done THEN Append(@, tier) ELSE @]
                /\ players' = IF done THEN RewardMana(players) ELSE players
                /\ granted' = IF done THEN [granted EXCEPT ![TierNumber(tier)] = @ + 1]
                              ELSE granted
                /\ modal' = OneButton("defeated")
       ELSE /\ modal' = OneButton("failed")
            /\ UNCHANGED <<game, players, granted>>
    /\ UNCHANGED <<catalog, phase, previousPhase, options, duel, monsterCombat, tournament,
                   recorded, callArgs, callResult>>

\* The 'OK' button of the modal that ends a combat: navigateTo('game').
CombatModalOk ==
    /\ modal.kind \in {"defeated", "failed"}
    /\ phase' = "game"
    /\ modal' = flushNotifications(game.pendingNotifications, NoModal)
    /\ UNCHANGED <<catalog, previousPhase, options, players, game, duel, monsterCombat,
                   tournament, granted, recorded, callArgs, callResult>>

\* The 'OK' button of a notification: shift the queue, flush again.
NotificationOk ==
    /\ modal.kind = "notification"
    /\ game' = [game EXCEPT !.pendingNotifications = IF @ = <<>> THEN @ ELSE Tail(@)]
    /\ modal' = flushNotifications(game'.pendingNotifications, NoModal)
    /\ UNCHANGED <<catalog, phase, previousPhase, options, players, duel, monsterCombat,
                   tournament, granted, recorded, callArgs, callResult>>

\* The back button of the combat screen: navigateTo('game').
MonsterCombatBack ==
    /\ phase = "monsterCombat" /\ modal.kind = "none"
    /\ phase' = "game"
    /\ modal' = flushNotifications(game.pendingNotifications, modal)
    /\ UNCHANGED <<catalog, previousPhase, options, players, game, duel, monsterCombat,
                   tournament, granted, recorded, callArgs, callResult>>

\* A skip that also moves the event cursor on.
skipMonsterAdvancing ==
    /\ phase = "game" /\ modal.kind = "none"
    /\ MonsterSectionShown
    /\ game' = [game EXCEPT !.monsterDefeated = TRUE, !.eventIndex = @ + 1]
    /\ modal' = flushNotifications(game.pendingNotifications, modal)
    /\ UNCHANGED <<catalog, phase, previousPhase, options, players, duel, monsterCombat,
                   tournament, granted, recorded, callArgs, callResult>>

\* skipMonster(): the 'Saltar' button of the monster section
skipMonster ==
    /\ phase = "game" /\ modal.kind = "none"
    /\ MonsterSectionShown
    /\ game' = [game EXCEPT !.monsterDefeated = TRUE]
    /\ modal' = flushNotifications(game.pendingNotifications, modal)
    /\ UNCHANGED <<catalog, phase, previousPhase, options, players, duel, monsterCombat,
                   tournament, granted, recorded, callArgs, callResult>>

\* The largest day count: 12 days are played.
MaxDay == 12

\* The test that ends the progression: g.currentDay >= 12 && g.timeOfDay === 'day',
\* with the day never ending the progression.
AtLastDayStrict(g) == g.currentDay > MaxDay /\ g.timeOfDay = "day"

\* g.currentDay >= 12 && g.timeOfDay === 'day'
AtLastDay(g) == g.currentDay >= MaxDay /\ g.timeOfDay = "day"

\* g.eventIndex >= g.eventDeck.length
DeckExhausted(g) == g.eventIndex >= Len(g.eventDeck)

\* The draw of the next entry that forgets the time of day.
DrawEntryKeepsTime(g, nextEntry) ==
    IF nextEntry.type = "day"
    THEN [g EXCEPT !.currentDay = @ + 1, !.monsterDefeated = FALSE]
    ELSE g

\* The draw that enters a new day without clearing the resolved flag.
DrawEntryKeepsFlag(g, nextEntry) ==
    IF nextEntry.type = "day"
    THEN [g EXCEPT !.timeOfDay = nextEntry.type, !.currentDay = @ + 1]
    ELSE [g EXCEPT !.timeOfDay = nextEntry.type]

\* g.timeOfDay = nextEntry.type; on a day entry currentDay++ and the monster
\* of the day is not yet defeated.
DrawEntry(g, nextEntry) ==
    IF nextEntry.type = "day"
    THEN [g EXCEPT !.timeOfDay = nextEntry.type, !.currentDay = @ + 1,
                   !.monsterDefeated = FALSE]
    ELSE [g EXCEPT !.timeOfDay = nextEntry.type]

\* The auto-skip that forgets to move the monster deck on.
ForceResolveKeepCursor(g) == [g EXCEPT !.monsterDefeated = TRUE]

\* The auto-skip of a Mazmorra Cerrada day: g.monsterDefeated = true;
\* g.monsterDeckIndex++
ForceResolve(g) == [g EXCEPT !.monsterDefeated = TRUE, !.monsterDeckIndex = @ + 1]

\* advanceTime that forgets g.eventIndex++ before reading the entry.
advanceTimeKeepCursor ==
    /\ phase = "game" /\ modal.kind = "none"
    /\ LET ev      == currentEvent
           closed  == ev.type = "day" /\ ev.name = "Mazmorra Cerrada" /\ ~game.monsterDefeated
           g1      == IF closed THEN ForceResolve(game) ELSE game
       IN  IF AtLastDay(g1)
           THEN /\ game' = g1
                /\ tournament' = TournamentSetup
                /\ phase' = "tournament"
                /\ modal' = modal
           ELSE /\ game' = DrawEntry(g1, At(g1.eventDeck, g1.eventIndex))
                /\ tournament' = tournament
                /\ phase' = phase
                /\ modal' = flushNotifications(game.pendingNotifications, modal)
    /\ UNCHANGED <<catalog, previousPhase, options, players, duel, monsterCombat, granted,
                   recorded, callArgs, callResult>>

\* advanceTime(): the 'Avanzar' button of the game screen
advanceTime ==
    /\ phase = "game" /\ modal.kind = "none"
    /\ LET ev      == currentEvent
           closed  == ev.type = "day" /\ ev.name = "Mazmorra Cerrada" /\ ~game.monsterDefeated
           g1      == IF closed THEN ForceResolve(game) ELSE game
       IN  IF AtLastDay(g1)
           THEN /\ game' = g1
                /\ tournament' = TournamentSetup
                /\ phase' = "tournament"
                /\ modal' = modal
           ELSE LET g2 == [g1 EXCEPT !.eventIndex = @ + 1]
                IN  IF DeckExhausted(g2)
                    THEN /\ game' = g2
                         /\ tournament' = TournamentSetup
                         /\ phase' = "tournament"
                         /\ modal' = modal
                    ELSE /\ game' = DrawEntry(g2, At(g2.eventDeck, g2.eventIndex))
                         /\ tournament' = tournament
                         /\ phase' = phase
                         /\ modal' = flushNotifications(game.pendingNotifications, modal)
    /\ UNCHANGED <<catalog, previousPhase, options, players, duel, monsterCombat, granted,
                   recorded, callArgs, callResult>>

\* --------------------------------------------- specification: a game session

\* The inputs of the event decks a session is started on: repetition counts
\* of (Dia Normal, Mazmorra Cerrada, Monstruo Legendario, night) and the draws
\* of the shuffle.
GameDeckInputs ==
    { <<[i \in 1..4 |-> 1], KeepDraws(4)>>,
      <<[i \in 1..4 |-> IF i = 1 THEN 2 ELSE 1], ZeroDraws(5)>> }

\* state.game of a session started without its day count: currentDay 0.
StartedGameDayZero(eventDeck, monsterDeck) ==
    [eventDeck |-> eventDeck, eventIndex |-> 0, currentDay |-> 0,
     timeOfDay |-> IF eventDeck # <<>> THEN eventDeck[1].type ELSE "day",
     monsterDeck |-> monsterDeck, monsterDeckIndex |-> 0, monsterDefeated |-> FALSE,
     pendingNotifications |-> <<>>]

\* state.game as startGame builds it on the decks: the first card is drawn.
StartedGame(eventDeck, monsterDeck) ==
    [eventDeck |-> eventDeck, eventIndex |-> 0,
     currentDay |-> IF eventDeck # <<>> /\ eventDeck[1].type = "day" THEN 1 ELSE 0,
     timeOfDay |-> IF eventDeck # <<>> THEN eventDeck[1].type ELSE "day",
     monsterDeck |-> monsterDeck, monsterDeckIndex |-> 0, monsterDefeated |-> FALSE,
     pendingNotifications |-> <<>>]

\* startGame(): the state it leaves, for a roster of 3 players whose classes
\* are chosen, on the decks the draws give.
InitGame ==
    /\ \E tracking \in BOOLEAN :
          options = [digitalMonsters |-> TRUE, digitalEvents |-> TRUE, fullTracking |-> tracking]
    /\ players = StartedPlayers(3, [i \in 1..3 |-> 0])
    /\ \E in \in GameDeckInputs, md \in {KeepDraws(3), ZeroDraws(3)} :
          /\ catalog = Catalog(NoExtra, in[1])
          /\ game = StartedGame(
                        buildCombinedEventDeck(DayEvents(in[1]), NightEvents(in[1]), in[2]),
                        buildMonsterDeck(MonsterCatalog(NoExtra), [t \in 1..4 |-> md]))
    /\ phase = "game"
    /\ previousPhase = "game"
    /\ duel = DefaultDuel
    /\ monsterCombat = DefaultMonsterCombat
    /\ tournament = DefaultTournament
    /\ modal = NoModal
    /\ granted = NoGrants
    /\ recorded = <<>>
    /\ callArgs = <<>>
    /\ callResult = NoCall

Init == InitGame

Next ==
    \/ advanceTime
    \/ openMonsterCombat
    \/ CombatToggle
    \/ adjustCombatantScore
    \/ endMonsterCombat
    \/ CombatModalOk
    \/ NotificationOk
    \/ ModalOverlayClick
    \/ MonsterCombatBack
    \/ skipMonster

Spec == Init /\ [][Next]_vars

\* -------------------------------------------------- claims: tier completion

\* The 0-based position of a monster id in the monster deck.
DeckPosition(id) == (CHOOSE i \in 1..Len(game.monsterDeck) : game.monsterDeck[i] = id) - 1

\* The monster of the open combat holds the last deck position of its tier.
CombatMonsterLastOfTier ==
    LET tier == getMonster(monsterCombat.monsterId).tier
    IN  DeckPosition(monsterCombat.monsterId) = MaxOf(TierIndices(game.monsterDeck, tier))

\* A step in which endMonsterCombat finds the monster defeated.
WonCombatEnds == phase = "monsterCombat" /\ modal.kind = "none" /\ modal'.kind = "defeated"

\* The step enqueues exactly one notification and raises every maxMana by one,
\* the mana by one up to the new maxMana.
OneTierReward ==
    /\ Len(game'.pendingNotifications) = Len(game.pendingNotifications) + 1
    /\ \A i \in 1..Len(players) :
          /\ players'[i].maxMana = players[i].maxMana + 1
          /\ players'[i].mana = IF players[i].mana + 1 <= players'[i].maxMana
                                THEN players[i].mana + 1 ELSE players'[i].maxMana

NoTierReward ==
    /\ game'.pendingNotifications = game.pendingNotifications
    /\ players' = players

\* C4: when a monster is defeated, one notification is enqueued and every
\* player gets +1 maxMana (and +1 mana up to it) if and only if the defeated
\* monster held the last deck position of its tier; otherwise nothing is
\* enqueued and no mana changes.
C4_RewardIffLastOfTier ==
    [][WonCombatEnds =>
          IF CombatMonsterLastOfTier THEN OneTierReward ELSE NoTierReward]_vars

\* C5: no tier's reward is granted a second time in a session.
C5_RewardOncePerTier == \A t \in 1..4 : granted[t] <= 1

\* ----------------------------------------------------- claims: tournament

\* The player id of seed k (k = 0 is rank 1) once the ranks are assigned.
SeedPlayer(k) ==
    (CHOOSE i \in 1..Len(tournament.seeds) : tournament.seeds[i].seedRank = k + 1) - 1

FinalMatch == findMatch("final")

\* C6: in a 4-player bracket, whatever the winners w1 of SF1 and w2 of SF2 and
\* whichever semifinal is recorded first, the slots of the Final are (w1, w2)
\* before the Final is resolved.
C6_FinalSlotsOf4p ==
    (Len(players) = 4 /\ tournament.phase = "bracket" /\ FinalMatch.winnerId = NULL) =>
        \A i, j \in 1..Len(recorded) :
            (recorded[i].matchId = "sf1" /\ recorded[j].matchId = "sf2") =>
                /\ FinalMatch.player1Id = recorded[i].winnerId
                /\ FinalMatch.player2Id = recorded[j].winnerId

\* SF2 was recorded first, SF1 second, and the Final holds both winners.
C6_Witness ==
    /\ Len(players) = 4 /\ tournament.phase = "bracket"
    /\ Len(recorded) = 2
    /\ recorded[1].matchId = "sf2" /\ recorded[2].matchId = "sf1"
    /\ FinalMatch.winnerId = NULL
    /\ FinalMatch.player1Id = recorded[2].winnerId
    /\ FinalMatch.player2Id = recorded[1].winnerId

\* A step that calls recordMatchResult on the Final.
RecordsFinal ==
    /\ Len(recorded') = Len(recorded) + 1
    /\ recorded'[Len(recorded')].matchId = "final"

\* The slots, feed links and advantage markers of all matches.
Wiring(rounds) ==
    [i \in 1..Len(AllMatches(rounds)) |->
        LET m == AllMatches(rounds)[i]
        IN  <<m.id, m.player1Id, m.player2Id, m.feedsFrom, m.advantagePlayerId>>]

\* C7: recordResult on the Final with winner w sets the champion to w and the
\* tournament phase to 'champion', and changes no slot, feed link or
\* advantage marker of any match.
C7_FinalSetsChampionOnly ==
    [][RecordsFinal =>
          /\ tournament'.championId = recorded'[Len(recorded')].winnerId
          /\ tournament'.phase = "champion"
          /\ Wiring(tournament'.rounds) = Wiring(tournament.rounds)]_vars

\* The Final of a 6-player bracket has been recorded and its winner is champion.
C7_Witness ==
    /\ Len(players) = 6
    /\ recorded # <<>>
    /\ recorded[Len(recorded)].matchId = "final"
    /\ tournament.phase = "champion"
    /\ tournament.championId = recorded[Len(recorded)].winnerId

C9_HigherScoreWins ==
    [][/\ (declareWinner /\ duel.score1 # duel.score2) =>
            LET w == IF duel.score1 > duel.score2 THEN duel.player1Id ELSE duel.player2Id
            IN  /\ duel'.winnerId = w
                /\ (duel.matchId # "" /\ modal'.kind # "nyra") =>
                      recorded' = Append(recorded, [matchId |-> duel.matchId, winnerId |-> w])
                /\ (duel.matchId = "" \/ modal'.kind = "nyra") => recorded' = recorded
       /\ ((NyraYes \/ NyraNo) /\ duel.matchId # "") =>
            recorded' = Append(recorded, [matchId |-> duel.matchId, winnerId |-> duel.winnerId])
      ]_vars

\* The second fighter won a match duel with the higher score and the result
\* was recorded for that match.
C9_Witness ==
    /\ phase = "tournament"
    /\ duel.matchId # ""
    /\ duel.score2 > duel.score1
    /\ duel.winnerId = duel.player2Id
    /\ recorded # <<>>
    /\ recorded[Len(recorded)] = [matchId |-> duel.matchId, winnerId |-> duel.player2Id]

\* A match of the canonical table: its two slots as seed numbers (NULL for a
\* slot filled by a winner) and the matches that feed its slots ("" for none).
Wired(id, seed1, seed2, from1, from2) ==
    LET m == findMatch(id)
    IN  /\ m.id = id
        /\ m.player1Id = (IF seed1 = NULL THEN NULL ELSE SeedPlayer(seed1))
        /\ m.player2Id = (IF seed2 = NULL THEN NULL ELSE SeedPlayer(seed2))
        /\ m.feedsFrom[1].matchId = from1
        /\ m.feedsFrom[2].matchId = from2
        /\ m.winnerId = NULL

\* The match ids of each round, leaves first.
RoundIds(rounds) ==
    [r \in 1..Len(rounds) |-> [k \in 1..Len(rounds[r].matches) |-> rounds[r].matches[k].id]]

RecordsNonFinal ==
    /\ Len(recorded') = Len(recorded) + 1
    /\ recorded'[Len(recorded')].matchId # "final"

\* Match m as recordResult(matchId, w) must leave it: the winner on the match
\* itself, w in the slots fed by matchId, everything else as it was.
AfterRecord(m, matchId, w) ==
    [id                |-> m.id,
     player1Id         |-> IF m.feedsFrom[1] # NoFeed /\ m.feedsFrom[1].matchId = matchId
                           THEN w ELSE m.player1Id,
     player2Id         |-> IF m.feedsFrom[2] # NoFeed /\ m.feedsFrom[2].matchId = matchId
                           THEN w ELSE m.player2Id,
     advantagePlayerId |-> m.advantagePlayerId,
     winnerId          |-> IF m.id = matchId THEN w ELSE m.winnerId,
     feedsFrom         |-> m.feedsFrom]

\* C11: recordResult(matchId, w) on a non-final match records w on that match
\* and writes w into exactly the slots whose feed link names matchId, in every
\* match; every other slot and winner, the phase and the champion are unchanged.
C11_RecordPropagatesExactly ==
    [][RecordsNonFinal =>
          LET e == recorded'[Len(recorded')]
          IN  /\ Len(tournament'.rounds) = Len(tournament.rounds)
              /\ \A r \in 1..Len(tournament.rounds) :
                    /\ tournament'.rounds[r].name = tournament.rounds[r].name
                    /\ Len(tournament'.rounds[r].matches) = Len(tournament.rounds[r].matches)
                    /\ \A k \in 1..Len(tournament.rounds[r].matches) :
                          tournament'.rounds[r].matches[k] =
                              AfterRecord(tournament.rounds[r].matches[k], e.matchId, e.winnerId)
              /\ tournament'.phase = tournament.phase
              /\ tournament'.championId = tournament.championId
              /\ tournament'.seeds = tournament.seeds]_vars

\* The quarterfinal of a 5-player bracket has been recorded and its winner
\* sits in the second slot of both semifinals.
C11_Witness ==
    /\ Len(players) = 5
    /\ Len(recorded) = 1
    /\ recorded[1].matchId = "qf1"
    /\ findMatch("qf1").winnerId = recorded[1].winnerId
    /\ findMatch("sf1").player2Id = recorded[1].winnerId
    /\ findMatch("sf2").player2Id = recorded[1].winnerId
    /\ findMatch("final").player2Id = NULL
    /\ tournament.phase = "bracket"

\* ------------------------------------- specification: the day/night timeline

\* The longest event deck after its first card, and the most night cards in it.
MaxTail == 13
MaxNights == 2

\* The number of night cards among the kinds ts.
Nights(ts) == Cardinality({i \in 1..Len(ts) : ts[i] = "night"})

\* The kinds of the cards after the first, for decks of up to k more cards.
RECURSIVE TypeSeqs(_)
TypeSeqs(k) ==
    IF k = 0 THEN {<<>>}
    ELSE LET shorter == TypeSeqs(k - 1)
             longer  == {Append(ts, t) : ts \in {x \in shorter : Len(x) = k - 1},
                                         t \in {"day", "night"}}
         IN  shorter \cup {ts \in longer : Nights(ts) <= MaxNights}

\* The deck buildCombinedEventDeck returns when the shuffle leaves the cards
\* in this order: {day, 1} first, then cards of the given kinds; the day
\* cards after the first are 'Mazmorra Cerrada' when closed, 'Dia Normal' if not.
TimelineDeck(types, closed) ==
    <<NormalDayCard>> \o
    [i \in 1..Len(types) |->
        IF types[i] = "day" THEN [type |-> "day", eventId |-> IF closed THEN 2 ELSE 1]
        ELSE [type |-> "night", eventId |-> 1]]

\* The repetition counts of the catalog such a deck is built from.
TimelineCounts(types, closed) ==
    LET days   == Cardinality({i \in 1..Len(types) : types[i] = "day"})
        nights == Nights(types)
    IN  [i \in 1..4 |-> IF i = 1 THEN (IF closed THEN 1 ELSE days + 1)
                        ELSE IF i = 2 THEN (IF closed THEN days ELSE 0)
                        ELSE IF i = 3 THEN 0 ELSE nights]

\* startGame() on such a deck, for a roster of 3 or 6 players.
InitTimeline ==
    /\ options = [digitalMonsters |-> TRUE, digitalEvents |-> TRUE, fullTracking |-> FALSE]
    /\ \E n \in {3, 6} : players = StartedPlayers(n, [i \in 1..n |-> 0])
    /\ \E types \in TypeSeqs(MaxTail), closed \in BOOLEAN :
          /\ (closed => \E i \in 1..Len(types) : types[i] = "day")
          /\ catalog = Catalog(NoExtra, TimelineCounts(types, closed))
          /\ game = StartedGame(TimelineDeck(types, closed),
                                buildMonsterDeck(MonsterCatalog(NoExtra),
                                                 [t \in 1..4 |-> KeepDraws(3)]))
    /\ phase = "game"
    /\ previousPhase = "game"
    /\ duel = DefaultDuel
    /\ monsterCombat = DefaultMonsterCombat
    /\ tournament = DefaultTournament
    /\ modal = NoModal
    /\ granted = NoGrants
    /\ recorded = <<>>
    /\ callArgs = <<>>
    /\ callResult = NoCall

NextTimeline ==
    \/ advanceTime
    \/ skipMonster

SpecTimeline == InitTimeline /\ [][NextTimeline]_vars

\* The tournament setup of the roster: phase 'pre', one seed per player in
\* roster order with no rank, no rounds, no champion.
SetupOfRoster ==
    /\ phase' = "tournament"
    /\ tournament'.phase = "pre"
    /\ Len(tournament'.seeds) = Len(players)
    /\ \A i \in 1..Len(players) :
          tournament'.seeds[i] = [playerId |-> players[i].id, seedRank |-> NULL]
    /\ tournament'.rounds = <<>>
    /\ tournament'.championId = NULL
    /\ players' = players

C13_ExhaustedDeckEntersSetup ==
    [][(/\ advanceTime
        /\ ~(game.currentDay >= 12 /\ game.timeOfDay = "day")
        /\ game.eventIndex + 1 >= Len(game.eventDeck)) =>
          /\ game'.eventIndex = game.eventIndex + 1
          /\ game'.currentDay = game.currentDay
          /\ game'.timeOfDay = game.timeOfDay
          /\ SetupOfRoster]_vars

\* A deck that ended on a night card before day 12: the tournament is set up
\* and the cursor is past the deck.
C13_Witness ==
    /\ phase = "tournament"
    /\ tournament.phase = "pre"
    /\ Len(tournament.seeds) = 3
    /\ game.eventIndex = Len(game.eventDeck)
    /\ Len(game.eventDeck) >= 3
    /\ game.currentDay < 12
    /\ game.timeOfDay = "night"

\* C14: in every state of a session, whatever the event deck and whatever
\* ticks and skips were made, the day counter is at least 1 and at most 12.
C14_DayCounterInRange ==
    phase \in {"game", "tournament"} => (game.currentDay >= 1 /\ game.currentDay <= 12)

\* A deck of 14 day cards has been played up to day 12 and the session has
\* left the timeline with two day cards unread.
C14_Witness ==
    /\ phase = "tournament"
    /\ Len(game.eventDeck) = 14
    /\ \A i \in 1..14 : game.eventDeck[i].type = "day"
    /\ game.currentDay = 12
    /\ game.eventIndex = 11

\* The number of day cards at the deck positions 0..cursor.
DaysUpTo(deck, cursor) ==
    Cardinality({i \in 0..cursor : i < Len(deck) /\ At(deck, i).type = "day"})

\* C15: the derived fields agree with the cursor: the day counter is the
\* number of day cards at deck positions 0..cursor and, while the cursor is
\* inside the deck, the time of day is the kind of the card at the cursor.
C15_DerivedFieldsAgree ==
    phase \in {"game", "tournament"} =>
        /\ game.currentDay = DaysUpTo(game.eventDeck, game.eventIndex)
        /\ game.eventIndex < Len(game.eventDeck) =>
              game.timeOfDay = At(game.eventDeck, game.eventIndex).type

\* The cursor stands on the second of two night cards in a row, on day 3.
C15_Witness ==
    /\ phase = "game"
    /\ game.eventIndex = 4
    /\ game.eventIndex < Len(game.eventDeck)
    /\ At(game.eventDeck, 3).type = "night"
    /\ At(game.eventDeck, 4).type = "night"
    /\ game.timeOfDay = "night"
    /\ game.currentDay = 3

\* Slot k (1 or 2) of a match.
SlotOf(m, k) == IF k = 1 THEN m.player1Id ELSE m.player2Id

\* In the bracket rounds: a slot without feed link holds a player; a slot with
\* a feed link is unresolved while its feeding match has no winner and holds
\* exactly that winner once it has one.
SlotsFollowFeeds(rounds) ==
    LET ms == AllMatches(rounds)
    IN  \A i \in 1..Len(ms), k \in {1, 2} :
            IF ms[i].feedsFrom[k] = NoFeed
            THEN SlotOf(ms[i], k) \in PlayerIds
            ELSE \E j \in 1..Len(ms) :
                    /\ ms[j].id = ms[i].feedsFrom[k].matchId
                    /\ SlotOf(ms[i], k) = ms[j].winnerId

\* In this step: a slot without feed link keeps its player; a filled slot
\* keeps its player; a slot is filled only by the step that records the
\* result of its feeding match, with the winner recorded.
SlotsFilledOnce ==
    LET ms  == AllMatches(tournament.rounds)
        ms2 == AllMatches(tournament'.rounds)
    IN  \A i \in 1..Len(ms), k \in {1, 2} :
              /\ i <= Len(ms2)
              /\ ms2[i].id = ms[i].id
              /\ ms2[i].feedsFrom = ms[i].feedsFrom
              /\ (ms[i].feedsFrom[k] = NoFeed \/ SlotOf(ms[i], k) # NULL)
                    => SlotOf(ms2[i], k) = SlotOf(ms[i], k)
              /\ SlotOf(ms2[i], k) # SlotOf(ms[i], k) =>
                    recorded' = Append(recorded, [matchId  |-> ms[i].feedsFrom[k].matchId,
                                                  winnerId |-> SlotOf(ms2[i], k)])

\* C16: a slot without feed link keeps the competitor seeded at construction
\* forever; a slot with a feed link is unresolved until its feeding match has
\* a winner, is then set to exactly that winner by one propagation, and never
\* changes afterwards.  (Before the bracket is built there is no slot; every
\* step that changes the tournament keeps the slots as described and leads to
\* a state in which every slot follows its feed.)
C16_SlotsSeededOrFilledOnce ==
    [][tournament' # tournament =>
          (SlotsFilledOnce /\ SlotsFollowFeeds(tournament'.rounds))]_vars

\* A 6-player bracket in which QF1 and QF2 are decided and QF3 is not: the
\* Final holds the winner of QF1, the semifinal the winner of QF2 and an
\* unresolved second slot.
C16_Witness ==
    /\ Len(players) = 6
    /\ tournament.phase = "bracket"
    /\ findMatch("qf1").winnerId # NULL
    /\ findMatch("qf2").winnerId # NULL
    /\ findMatch("qf3").winnerId = NULL
    /\ findMatch("final").player1Id = findMatch("qf1").winnerId
    /\ findMatch("sf1").player1Id = findMatch("qf2").winnerId
    /\ findMatch("sf1").player2Id = NULL
    /\ findMatch("final").player2Id = NULL

\* The players standing in the slots of the match of the i-th recorded result
\* who were not recorded as its winner.
LosersOf(i) ==
    LET m == findMatch(recorded[i].matchId)
    IN  ({m.player1Id, m.player2Id} \ {NULL}) \ {recorded[i].winnerId}

\* C17: the tournament is single-elimination: a player who has lost a match
\* is never recorded as the winner of a later match and never becomes champion.
C17_SingleElimination ==
    /\ \A i, j \in 1..Len(recorded) : i < j => recorded[j].winnerId \notin LosersOf(i)
    /\ \A i \in 1..Len(recorded) : tournament.championId \notin LosersOf(i)

\* ------------------------------------------- specification: the player cards

\* The cards whose gold buttons are pressed: those of the two fighters of the
\* floating duel; the card whose mana row is used: the first.
GoldCards == {players[1].id, players[2].id}
ManaCards == {players[1].id}
\* Most gold the players hold together at which a gold '+' is still pressed.
MaxGold == 7
\* Largest maxMana at which a mana '+' is still pressed.
MaxManaCap == 4

RECURSIVE TotalGold(_)
TotalGold(ps) == IF ps = <<>> THEN 0 ELSE Head(ps).gold + TotalGold(Tail(ps))

\* The gold a button leaves when the result is not floored.
GoldAfterNoFloor(gold, delta) == gold + delta

\* Math.max(0, p.gold + delta)
GoldAfter(gold, delta) == IF gold + delta < 0 THEN 0 ELSE gold + delta

\* The player cards carry their buttons on the game screen with full tracking.
CardsOperable == phase = "game" /\ modal.kind = "none" /\ options.fullTracking

\* adjustGold(pid, delta): the gold + and - buttons of a player card
adjustGold ==
    /\ CardsOperable
    /\ \E pid \in GoldCards, delta \in {1, -1} :
          /\ delta = 1 => TotalGold(players) < MaxGold
          /\ players' = [i \in 1..Len(players) |->
                            IF players[i].id = pid
                            THEN [players[i] EXCEPT !.gold = GoldAfter(@, delta)]
                            ELSE players[i]]
    /\ UNCHANGED <<catalog, phase, previousPhase, options, game, duel, monsterCombat,
                   tournament, modal, granted, recorded, callArgs, callResult>>

\* toggleMana(pid, idx): a click on mana token idx of a player card, which
\* shows maxMana tokens, numbered from 0.
toggleMana ==
    /\ CardsOperable
    /\ \E pid \in ManaCards :
          \E idx \in 0..(PlayerOf(pid).maxMana - 1) :
             players' = [i \in 1..Len(players) |->
                            IF players[i].id = pid
                            THEN [players[i] EXCEPT !.mana = IF idx < @ THEN idx ELSE idx + 1]
                            ELSE players[i]]
    /\ UNCHANGED <<catalog, phase, previousPhase, options, game, duel, monsterCombat,
                   tournament, modal, granted, recorded, callArgs, callResult>>

\* adjustMaxMana(pid, delta): the maxMana + and - buttons of a player card
adjustMaxMana ==
    /\ CardsOperable
    /\ \E pid \in ManaCards, delta \in {1, -1} :
          LET old    == PlayerOf(pid).maxMana
              newMax == IF old + delta < 1 THEN 1 ELSE old + delta
          IN  /\ delta = 1 => old < MaxManaCap
              /\ players' = [i \in 1..Len(players) |->
                               IF players[i].id = pid
                               THEN [players[i] EXCEPT
                                        !.maxMana = newMax,
                                        !.mana = IF @ < newMax THEN @ ELSE newMax]
                               ELSE players[i]]
    /\ UNCHANGED <<catalog, phase, previousPhase, options, game, duel, monsterCombat,
                   tournament, modal, granted, recorded, callArgs, callResult>>

\* The floating duel button of the game screen: previousPhase = 'game', then
\* openDuel(null), a duel of the first two players that belongs to no match.
OpenDuelFloat ==
    /\ phase = "game" /\ modal.kind = "none"
    /\ previousPhase' = "game"
    /\ duel' = [player1Id |-> players[1].id, player2Id |-> players[2].id,
                score1 |-> 0, score2 |-> 0, winnerId |-> NULL, matchId |-> ""]
    /\ phase' = "duel"
    /\ UNCHANGED <<catalog, options, players, game, monsterCombat, tournament, modal,
                   granted, recorded, callArgs, callResult>>

\* The draws of a tier's shuffle that bring its third monster to the front.
LastFirstDraws == [i \in 1..2 |-> IF i = 1 THEN 1 ELSE 0]

\* startGame() with full tracking for a roster of 3 players, on a deck of one
\* day card and a monster deck whose tiers begin with their special monster.
InitResources ==
    /\ options = [digitalMonsters |-> TRUE, digitalEvents |-> TRUE, fullTracking |-> TRUE]
    /\ players = StartedPlayers(3, [i \in 1..3 |-> 0])
    /\ catalog = Catalog(NoExtra, TimelineCounts(<<>>, FALSE))
    /\ game = StartedGame(TimelineDeck(<<>>, FALSE),
                          buildMonsterDeck(MonsterCatalog(NoExtra),
                                           [t \in 1..4 |-> LastFirstDraws]))
    /\ phase = "game"
    /\ previousPhase = "game"
    /\ duel = DefaultDuel
    /\ monsterCombat = DefaultMonsterCombat
    /\ tournament = DefaultTournament
    /\ modal = NoModal
    /\ granted = NoGrants
    /\ recorded = <<>>
    /\ callArgs = <<>>
    /\ callResult = NoCall

NextResources ==
    \/ adjustGold
    \/ toggleMana
    \/ adjustMaxMana
    \/ OpenDuelFloat
    \/ ScoreButton
    \/ declareWinner
    \/ NyraYes
    \/ NyraNo
    \/ TieOk
    \/ DuelBack
    \/ openMonsterCombat
    \/ endMonsterCombat
    \/ CombatModalOk
    \/ NotificationOk
    \/ ModalOverlayClick

SpecResources == InitResources /\ [][NextResources]_vars

\* C18: after any sequence of gold and mana button presses, tier rewards and
\* Nyra transfers, every player has gold >= 0, 0 <= mana <= maxMana and
\* maxMana >= 1.
C18_ResourcesInRange ==
    \A i \in 1..Len(players) :
        /\ players[i].gold >= 0
        /\ 0 <= players[i].mana
        /\ players[i].mana <= players[i].maxMana
        /\ players[i].maxMana >= 1

\* Nyra holds the 7 gold stolen from a player who is left with none, after a
\* tier reward and with the mana row lowered to one empty token.
C18_Witness ==
    /\ granted[1] >= 1
    /\ players[1].gold = NyraSteal /\ players[2].gold = 0
    /\ players[1].maxMana = 1 /\ players[1].mana = 0
    /\ players[3].maxMana > CharMaxMana(players[3].characterId)

\* --------------------------------------------- specification: the setup screen

\* { id, name: '', characterId: '', gold: 0, mana: 4, maxMana: 4 } as init()
\* and the add-player button push it
SetupPlayer(id) ==
    [id |-> id, name |-> "", characterId |-> "", gold |-> 0, mana |-> 4, maxMana |-> 4]

\* splice(idx, 1) without the renumbering that follows it.
RemovePlayerAtKeepIds(ps, idx) == SubSeq(ps, 1, idx) \o SubSeq(ps, idx + 2, Len(ps))

\* state.players.splice(idx, 1); state.players.forEach((p, i) => p.id = i)
RemovePlayerAt(ps, idx) ==
    LET rest == SubSeq(ps, 1, idx) \o SubSeq(ps, idx + 2, Len(ps))
    IN  [i \in 1..Len(rest) |-> [rest[i] EXCEPT !.id = i - 1]]

\* The players startGame() leaves: state.players.map((p, i) => ({...p, id: i,
\* gold: 0, mana: maxMana, maxMana}))
StartGamePlayers(ps) ==
    [i \in 1..Len(ps) |->
        [ps[i] EXCEPT !.id = i - 1, !.gold = 0,
                      !.mana = CharMaxMana(ps[i].characterId),
                      !.maxMana = CharMaxMana(ps[i].characterId)]]

\* updateStartButton(): the start button is enabled
StartEnabled ==
    /\ Len(players) >= 3
    /\ \A i \in 1..Len(players) : players[i].name # "" /\ players[i].characterId # ""
    /\ \A i, j \in 1..Len(players) : i # j => players[i].characterId # players[j].characterId

\* The 'Agregar Jugador' button.
AddPlayer ==
    /\ phase = "setup"
    /\ Len(players) < 6
    /\ players' = Append(players, SetupPlayer(Len(players)))
    /\ UNCHANGED <<catalog, phase, previousPhase, options, game, duel, monsterCombat,
                   tournament, modal, granted, recorded, callArgs, callResult>>

\* The remove button of slot idx.
RemovePlayer ==
    /\ phase = "setup"
    /\ Len(players) > 3
    /\ \E idx \in 0..(Len(players) - 1) : players' = RemovePlayerAt(players, idx)
    /\ UNCHANGED <<catalog, phase, previousPhase, options, game, duel, monsterCombat,
                   tournament, modal, granted, recorded, callArgs, callResult>>

\* A name typed into slot idx: empty or not.
NameInput ==
    /\ phase = "setup"
    /\ \E idx \in 0..(Len(players) - 1), name \in {"", "A"} :
          players' = [players EXCEPT ![idx + 1].name = name]
    /\ UNCHANGED <<catalog, phase, previousPhase, options, game, duel, monsterCombat,
                   tournament, modal, granted, recorded, callArgs, callResult>>

\* A change of the class select of slot idx: to no class, or to the class
\* of the slot's number; a class another slot holds is disabled.
CharacterSelect ==
    /\ phase = "setup"
    /\ \E idx \in 0..(Len(players) - 1) : \E c \in {"", Characters[idx + 1]} :
          /\ c # "" => \A j \in 1..Len(players) : j # idx + 1 => players[j].characterId # c
          /\ players' = [players EXCEPT ![idx + 1].characterId = c]
    /\ UNCHANGED <<catalog, phase, previousPhase, options, game, duel, monsterCombat,
                   tournament, modal, granted, recorded, callArgs, callResult>>

\* startGame(): the 'Comenzar Partida' button
startGame ==
    /\ phase = "setup"
    /\ StartEnabled
    /\ players' = StartGamePlayers(players)
    /\ \E draw \in {KeepDraws(4), ZeroDraws(4)} :
          game' = StartedGame(
                      buildCombinedEventDeck(catalog.DAY_EVENTS, catalog.NIGHT_EVENTS, draw),
                      buildMonsterDeck(catalog.MONSTERS, [t \in 1..4 |-> KeepDraws(3)]))
    /\ phase' = "game"
    /\ UNCHANGED <<catalog, previousPhase, options, duel, monsterCombat, tournament, modal,
                   granted, recorded, callArgs, callResult>>

\* init() on an empty store: the default state with three empty player slots.
InitSetup ==
    /\ phase = "setup"
    /\ previousPhase = "game"
    /\ options = DefaultOptions
    /\ players = [i \in 1..3 |-> SetupPlayer(i - 1)]
    /\ game = DefaultGame
    /\ duel = DefaultDuel
    /\ monsterCombat = DefaultMonsterCombat
    /\ tournament = DefaultTournament
    /\ modal = NoModal
    /\ granted = NoGrants
    /\ recorded = <<>>
    /\ catalog = Catalog(NoExtra, [i \in 1..4 |-> 1])
    /\ callArgs = <<>>
    /\ callResult = NoCall

NextSetup ==
    \/ AddPlayer
    \/ RemovePlayer
    \/ NameInput
    \/ CharacterSelect
    \/ startGame

SpecSetup == InitSetup /\ [][NextSetup]_vars

\* C19: in setup after any adds and removes, and after game start, the roster
\* holds 3 to 6 players and the player at position i (from 0) has id i.
C19_RosterDense ==
    /\ 3 <= Len(players) /\ Len(players) <= 6
    /\ \A i \in 1..Len(players) : players[i].id = i - 1

\* A game started with five players, the fifth of whom was added as the
\* sixth slot and moved up when a slot before it was removed.
C19_Witness ==
    /\ phase = "game"
    /\ Len(players) = 5
    /\ players[5].characterId = Characters[6]

\* ------------------------------------------------------- claims: the seeding

\* The player ids in ascending order of seed rank.
PlayersByRank ==
    [r \in 1..Len(tournament.seeds) |->
        tournament.seeds[CHOOSE i \in 1..Len(tournament.seeds) :
                             tournament.seeds[i].seedRank = r].playerId]

\* C20: after startTournament, for every outcome of the shuffle, every seed
\* has a rank in 1..N, no two seeds share a rank and every value of 1..N is
\* used; the bracket is the one built from the players in ascending order of
\* rank.
C20_RanksArePermutation ==
    tournament.phase = "bracket" =>
        LET seeds == tournament.seeds
            N     == Len(seeds)
        IN  /\ N = Len(players)
            /\ \A i \in 1..N : seeds[i].seedRank \in 1..N
            /\ \A i, j \in 1..N : i # j => seeds[i].seedRank # seeds[j].seedRank
            /\ \A r \in 1..N : \E i \in 1..N : seeds[i].seedRank = r
            /\ tournament.rounds = BracketFor(N, PlayersByRank)

\* A bracket of five players whose first seed drew the last rank and whose
\* last seed drew the first.
C20_Witness ==
    /\ tournament.phase = "bracket"
    /\ Len(tournament.seeds) = 5
    /\ tournament.seeds[1].seedRank = 5
    /\ tournament.seeds[5].seedRank = 1

\* ------------------------------------------------- claims: the Nyra transfer

\* The gold of the player with id pid in the roster ps.
GoldOf(ps, pid) == ps[CHOOSE i \in 1..Len(ps) : ps[i].id = pid].gold

\* The roster after exactly min(7, loser's gold) has moved from the loser to
\* the winner of the open Nyra modal.
ExactTransfer ==
    LET w      == modal.winnerId
        l      == modal.loserId
        stolen == IF GoldOf(players, l) < 7 THEN GoldOf(players, l) ELSE 7
    IN  /\ Len(players') = Len(players)
        /\ \A i \in 1..Len(players) :
              players'[i] =
                  [players[i] EXCEPT !.gold = @ - (IF players[i].id = l THEN stolen ELSE 0)
                                              + (IF players[i].id = w THEN stolen ELSE 0)]
        /\ GoldOf(players', l) >= 0
        /\ GoldOf(players', w) + GoldOf(players', l) = GoldOf(players, w) + GoldOf(players, l)

\* C21: with tracking on and a Nyra winner, accepting the transfer moves
\* exactly min(7, loser's gold) from the loser to the winner, the loser's gold
\* stays >= 0 and the sum of the two is unchanged; no other step (declining,
\* tracking off, another winner) changes any gold.
C21_NyraTransferExact ==
    [][/\ (modal.kind = "nyra" /\ NyraYes) => ExactTransfer
       /\ players' # players =>
             /\ modal.kind = "nyra" /\ NyraYes
             /\ options.fullTracking
             /\ PlayerOf(modal.winnerId).characterId = "nyra"]_vars

\* Nyra holds 7 gold taken from the third player, who keeps the rest.
C21_Witness ==
    /\ players[1].characterId = "nyra"
    /\ players[1].gold = 7
    /\ players[3].gold = 2 * GoldStep - 7
    /\ players[3].gold > 0

\* ------------------------------------------------ claims: the open duel

\* C22: whenever a duel is open, in free play or for a tournament match, its
\* two fighters are different players.
C22_FightersDiffer ==
    phase = "duel" => duel.player1Id # duel.player2Id

\* ------------------------------------------------- claims: the champion

\* C23: the champion is set if and only if the Final has been resolved:
\* championId is non-null exactly when the tournament phase is 'champion',
\* exactly when the Final has a winner, and it then equals that winner.
C23_ChampionIffFinalResolved ==
    /\ tournament.championId # NULL <=> tournament.phase = "champion"
    /\ tournament.championId # NULL <=> FinalMatch.winnerId # NULL
    /\ tournament.championId = FinalMatch.winnerId

\* A 5-player tournament whose Final is resolved while its second semifinal
\* was never played.
C23_Witness ==
    /\ Len(players) = 5
    /\ tournament.phase = "champion"
    /\ tournament.championId # NULL
    /\ tournament.championId = FinalMatch.winnerId
    /\ findMatch("sf2").winnerId = NULL

\* --------------------------------------- specification: recordMatchResult

\* The match ids a caller may pass: those of the brackets, and one of none.
CallMatchIds == {"qf1", "qf2", "qf3", "sf1", "sf2", "final", "none"}

\* recordMatchResult(matchId, winnerId) called on the bracket: the null match
\* is guarded by 'if (match)', propagateWinner finds no feed link and
\* navigateTo('tournament') follows; no statement throws and nothing is
\* returned.
RecordMatchResultCall ==
    /\ tournament.phase = "bracket"
    /\ ~callResult.done
    /\ \E matchId \in CallMatchIds, winnerId \in PlayerIds :
          /\ callArgs' = [matchId |-> matchId, winnerId |-> winnerId, before |-> tournament]
          /\ tournament' = recordMatchResult(tournament, matchId, winnerId)
          /\ recorded' = Append(recorded, [matchId |-> matchId, winnerId |-> winnerId])
    /\ phase' = "tournament"
    /\ callResult' = [done |-> TRUE, value |-> <<>>, threw |-> FALSE]
    /\ UNCHANGED <<catalog, previousPhase, options, players, game, duel, monsterCombat,
                   modal, granted>>

NextRecord ==
    \/ StartTournamentSampled
    \/ RecordMatchResultCall

SpecRecord == InitTournament /\ [][NextRecord]_vars

TickStep ==
    phase = "game" /\ (game'.eventIndex = game.eventIndex + 1 \/ phase' = "tournament")

ClosedDay == currentEvent.type = "day" /\ currentEvent.name = "Mazmorra Cerrada"

\* C25: a tick on a Mazmorra Cerrada day whose monster is not resolved
\* resolves it first: the monster-deck cursor advances by exactly one, no
\* notification is enqueued, no mana is granted, and the resolved flag is set
\* unless the same tick enters a new day, which clears it; on such a day with
\* the monster already resolved the monster-deck cursor is unchanged.
C25_ClosedDayForceResolves ==
    [][TickStep =>
          /\ (ClosedDay /\ ~game.monsterDefeated) =>
                /\ game'.monsterDeckIndex = game.monsterDeckIndex + 1
                /\ game'.pendingNotifications = game.pendingNotifications
                /\ players' = players
                /\ granted' = granted
                /\ game'.monsterDefeated \/ game'.currentDay = game.currentDay + 1
          /\ (ClosedDay /\ game.monsterDefeated) =>
                game'.monsterDeckIndex = game.monsterDeckIndex]_vars

\* A night entered from a Mazmorra Cerrada day: its monster was passed over
\* and stays resolved.
C25_Witness ==
    /\ phase = "game"
    /\ game.timeOfDay = "night"
    /\ game.monsterDefeated
    /\ game.monsterDeckIndex = 1
    /\ game.eventIndex >= 1
    /\ At(game.eventDeck, game.eventIndex - 1) = [type |-> "day", eventId |-> 2]

\* ------------------------------------------- claims: the end of a combat

\* A step of endMonsterCombat that finds the monster undefeated.
LostCombatEnds == phase = "monsterCombat" /\ modal.kind = "none" /\ modal'.kind = "failed"

\* C26: ending a combat with a failure marks the day's monster as resolved
\* and leaves the monster-deck cursor, every player's mana and maxMana and
\* the notification queue unchanged.
C26_FailureMarksResolved ==
    [][LostCombatEnds =>
          /\ game'.monsterDefeated
          /\ game'.monsterDeckIndex = game.monsterDeckIndex
          /\ game'.pendingNotifications = game.pendingNotifications
          /\ \A i \in 1..Len(players) :
                /\ players'[i].mana = players[i].mana
                /\ players'[i].maxMana = players[i].maxMana]_vars

\* C27: ending a combat with a victory marks the day's monster as resolved,
\* advances the monster-deck cursor by exactly one, and makes the
\* tier-completion check for the tier of the monster that was at the cursor
\* before the advance: that tier is rewarded if and only if the cursor has
\* passed its last deck position.
C27_VictoryChecksCursorTier ==
    [][WonCombatEnds =>
          LET tier == getMonster(CurrentMonsterId).tier
          IN  /\ game'.monsterDefeated
              /\ game'.monsterDeckIndex = game.monsterDeckIndex + 1
              /\ granted' = IF tier # "" /\ TierComplete(game.monsterDeck,
                                                         game.monsterDeckIndex + 1, tier)
                            THEN [granted EXCEPT ![TierNumber(tier)] = @ + 1]
                            ELSE granted]_vars

\* ------------------------------------------- specification: the sessions

\* Three kinds of session, each run with its own operations: a game on a
\* catalog with Mazmorra Cerrada cards (ticks, combat, skip, notifications),
\* a tracked game on the catalog of one Dia Normal (player cards and floating
\* duels), and the tournament of 3 players that follows a game.
RichCatalog == catalog.DAY_EVENTS[2].count > 0

\* The player cards and the floating duel.
NextCards ==
    \/ adjustGold
    \/ toggleMana
    \/ adjustMaxMana
    \/ OpenDuelFloat
    \/ ScoreButton
    \/ declareWinner
    \/ NyraYes
    \/ NyraNo
    \/ TieOk
    \/ DuelBack

InitSessions ==
    \/ InitGame
    \/ InitResources
    \/ InitTournament /\ Len(players) = 3

NextSessions ==
    \/ RichCatalog /\ Next
    \/ ~RichCatalog /\ ~DeckExhausted(game) /\ NextCards
    \/ ~RichCatalog /\ DeckExhausted(game) /\ NextTournament

SpecSessions == InitSessions /\ [][NextSessions]_vars

\* C28: after session start no operation other than advanceTime changes the
\* event cursor, the day counter or the time of day: combat, skip, duel,
\* resource adjustment, notification acknowledgment and tournament operations
\* leave the three unchanged.
C28_OnlyTickMovesTime ==
    [][(\/ game'.eventIndex # game.eventIndex
        \/ game'.currentDay # game.currentDay
        \/ game'.timeOfDay # game.timeOfDay) => advanceTime]_vars

\* The game has ticked onto a later entry and a monster was defeated there.
C28_Witness ==
    /\ phase = "game"
    /\ game.eventIndex >= 1
    /\ game.monsterDeckIndex >= 1
    /\ game.monsterDefeated


\* ------------------------------------------- claims: the entry drawn by a tick

\* A tick that moves the cursor onto an entry inside the deck.
InDeckTick == TickStep /\ phase' = "game"

\* The entry the cursor moves onto.
EnteredEntry == At(game.eventDeck, game.eventIndex + 1)

\* What every in-deck tick does: the cursor advances by exactly one, the
\* time-of-day becomes the entry's kind, and a day entry increases the day
\* counter by exactly one and clears the resolved flag.
EntryCommon ==
    /\ game'.eventIndex = game.eventIndex + 1
    /\ game'.timeOfDay = EnteredEntry.type
    /\ EnteredEntry.type = "day" =>
          /\ game'.currentDay = game.currentDay + 1
          /\ ~game'.monsterDefeated
    /\ EnteredEntry.type = "night" => game'.currentDay = game.currentDay

\* C29 as stated: on a tick that moves the cursor onto an entry inside the
\* deck, a day entry increases the day counter by exactly one and clears the
\* monster-resolved flag, a night entry leaves the day counter and the
\* monster-resolved flag unchanged, and in both cases the cursor advances by
\* exactly one and the time-of-day becomes the entry's kind.
C29_TickEntryEffects ==
    [][InDeckTick =>
          /\ EntryCommon
          /\ EnteredEntry.type = "night" =>
                game'.monsterDefeated = game.monsterDefeated]_vars

\* C29 amended: as above, but on a night entry the monster-resolved flag is
\* unchanged except that a tick leaving a Mazmorra Cerrada day sets it.
C29_TickEntryEffectsAmended ==
    [][InDeckTick =>
          /\ EntryCommon
          /\ EnteredEntry.type = "night" =>
                game'.monsterDefeated = (game.monsterDefeated \/ ClosedDay)]_vars

\* A day entered by a tick from a night that followed a Mazmorra Cerrada day:
\* the night kept the flag the tick had set, and the new day cleared it.
C29_Witness ==
    /\ phase = "game"
    /\ game.timeOfDay = "day"
    /\ game.currentDay = 3
    /\ game.eventIndex >= 3
    /\ At(game.eventDeck, game.eventIndex - 1).type = "night"
    /\ At(game.eventDeck, game.eventIndex - 2) = [type |-> "day", eventId |-> 2]
    /\ game.monsterDeckIndex = 1
    /\ ~game.monsterDefeated


\* ------------------------------------------- claims: the 5-player semifinals

\* Both slots of the match hold players.
BothSlotsFilled(m) == m.player1Id \in PlayerIds /\ m.player2Id \in PlayerIds

\* C30: in the 5-player bracket only one semifinal proceeds: SF1 and SF2
\* never both have their two slots filled, so they are never both playable.
C30_OneSemifinalProceeds ==
    Len(players) = 5 =>
        ~(BothSlotsFilled(findMatch("sf1")) /\ BothSlotsFilled(findMatch("sf2")))


\* ------------------------------------------- claims: the advantage marker

\* The seed rank of a player.
RankOf(seeds, pid) ==
    seeds[CHOOSE i \in 1..Len(seeds) : seeds[i].playerId = pid].seedRank

\* The competitor of the match with the best seed; none on an empty pairing.
SeedFirst(seeds, m) ==
    LET cs == {m.player1Id, m.player2Id} \ {NULL}
    IN  IF cs = {} THEN NULL
        ELSE CHOOSE p \in cs : \A q \in cs : RankOf(seeds, p) <= RankOf(seeds, q)

\* The advantage markers of all matches, in round order.
Advantages(rounds) ==
    LET ms == AllMatches(rounds)
    IN  [i \in 1..Len(ms) |-> ms[i].advantagePlayerId]

\* The advantage markers a bracket is built with.
SeedFirstAdvantages(seeds, rounds) ==
    LET ms == AllMatches(rounds)
    IN  [i \in 1..Len(ms) |-> SeedFirst(seeds, ms[i])]

\* C31: for 3 to 6 players every match's advantage marker is set when the
\* bracket is built to the best-seeded competitor of its initial pairing
\* (none on a pairing without competitors), and no later step, a recorded
\* result and its propagation included, changes any advantage marker.
C31_AdvantageFixedAtConstruction ==
    [][tournament' # tournament =>
          /\ (tournament.rounds = <<>> /\ tournament'.rounds # <<>>) =>
                Advantages(tournament'.rounds)
                    = SeedFirstAdvantages(tournament'.seeds, tournament'.rounds)
          /\ tournament.rounds # <<>> =>
                Advantages(tournament'.rounds) = Advantages(tournament.rounds)]_vars

\* Six players: the semifinal and the final hold propagated winners and still
\* carry no advantage marker.
C31_Witness ==
    /\ Len(players) = 6 /\ tournament.phase = "bracket"
    /\ BothSlotsFilled(findMatch("sf1"))
    /\ findMatch("sf1").advantagePlayerId = NULL
    /\ findMatch("final").player1Id \in PlayerIds
    /\ findMatch("final").advantagePlayerId = NULL
    /\ findMatch("qf1").advantagePlayerId = findMatch("qf1").player1Id


\* ------------------------------------------- claims: the Nyra offer

\* The results recorded for a match.
RecordsOf(rec, matchId) == {i \in 1..Len(rec) : rec[i].matchId = matchId}

\* C32: for a tournament duel won by a Nyra player with resource tracking on,
\* while the offer is shown the match has no winner and no recorded result;
\* the only steps out of the offer are its two buttons, and each records the
\* result of the match with the declared winner; no match is ever recorded
\* twice.
C32_OfferResolvedBeforeRecord ==
    [][/\ (modal'.kind = "nyra" /\ duel'.matchId # "") =>
             /\ findMatchIn(tournament'.rounds, duel'.matchId).winnerId = NULL
             /\ RecordsOf(recorded', duel'.matchId) = {}
       /\ (modal.kind = "nyra" /\ duel.matchId # "") =>
             /\ modal'.kind = "none"
             /\ recorded' = Append(recorded, [matchId |-> duel.matchId,
                                              winnerId |-> modal.winnerId])
             /\ findMatchIn(tournament'.rounds, duel.matchId).winnerId = modal.winnerId
             /\ duel' = duel
       /\ recorded' # recorded =>
             \A i \in 1..Len(recorded') :
                 Cardinality(RecordsOf(recorded', recorded'[i].matchId)) = 1]_vars

\* A tracked tournament whose first result was won by the Nyra player, the
\* offer declined: every player holds the gold the tournament began with.
C32_Witness ==
    /\ options.fullTracking
    /\ phase = "tournament" /\ modal.kind = "none"
    /\ Len(recorded) >= 1
    /\ recorded[1].winnerId \in PlayerIds
    /\ PlayerOf(recorded[1].winnerId).characterId = "nyra"
    /\ \A i \in 1..Len(players) : players[i].gold = (i - 1) * GoldStep


\* ------------------------------------------- claims: the notification queue

\* C33: the pending notifications are a FIFO acknowledged one at a time: a
\* step changes the queue only by appending one notification or by removing
\* its head, and it removes the head only while that notification is the
\* one displayed; no other modal interaction removes a pending notification.
C33_NotificationsAcknowledgedInOrder ==
    [][game'.pendingNotifications # game.pendingNotifications =>
          \/ /\ Len(game'.pendingNotifications) = Len(game.pendingNotifications) + 1
             /\ SubSeq(game'.pendingNotifications, 1, Len(game.pendingNotifications))
                    = game.pendingNotifications
          \/ /\ game.pendingNotifications # <<>>
             /\ game'.pendingNotifications = Tail(game.pendingNotifications)
             /\ modal.kind = "notification"]_vars


\* ------------------------------------------- claims: a declared duel

\* C34: declaring a winner is terminal for a duel: the declaration leaves the
\* scores as entered, and while the duel is neither reset nor reopened no
\* step changes the declared winner, shows the Nyra offer again or records
\* a match result again once the declaration is complete.
C34_DeclaredWinnerIsTerminal ==
    [][/\ (duel.winnerId = NULL /\ duel'.winnerId # NULL) =>
             /\ duel'.score1 = duel.score1
             /\ duel'.score2 = duel.score2
       /\ (duel.winnerId # NULL /\ duel'.winnerId # NULL) =>
             /\ duel'.winnerId = duel.winnerId
             /\ modal.kind = "none" =>
                   /\ modal'.kind # "nyra"
                   /\ players' = players \/ phase # "duel"
                   /\ recorded' = recorded
                   /\ tournament' = tournament \/ phase # "duel"]_vars


\* ------------------------------------------- claims: the winner of a match

\* C35: in every tournament state a match whose winner is set has one of its
\* own two competitors as winner.
C35_WinnerIsCompetitor ==
    LET ms == AllMatches(tournament.rounds)
    IN  \A i \in 1..Len(ms) :
            ms[i].winnerId # NULL => ms[i].winnerId \in {ms[i].player1Id, ms[i].player2Id}


\* ------------------------------------------- claims: monsters per day

\* C36: the monster-deck cursor advances at most once per game day: in every
\* game state monsterDeckIndex <= currentDay, hence at most 12.
C36_OneMonsterPerDay ==
    /\ game.monsterDeckIndex <= game.currentDay
    /\ game.monsterDeckIndex <= MaxDay


\* ------------------------------------------- specification: playing out the bracket

\* A score button that leaves the two scores different.
ScoreUneven == ScoreButton /\ duel'.score1 # duel'.score2

\* A declaration on scores that are not tied.
DeclareUntied == declareWinner /\ duel.score1 # duel.score2

\* An answer to the Nyra offer.
NyraAnswer == NyraYes \/ NyraNo

\* The tournament played by generating the bracket, pressing 'Pelear',
\* scoring and declaring.
NextPlayoff ==
    \/ StartTournamentSampled
    \/ Pelear
    \/ ScoreButton
    \/ declareWinner
    \/ NyraYes
    \/ NyraNo
    \/ TieOk

\* Every playable match is eventually fought, and every duel is eventually
\* declared on untied scores and its modals answered.
FairPlayoff ==
    /\ WF_vars(Pelear)
    /\ SF_vars(ScoreUneven)
    /\ SF_vars(DeclareUntied)
    /\ WF_vars(NyraAnswer)
    /\ WF_vars(TieOk)

SpecPlayoff == InitTournament /\ [][NextPlayoff]_vars /\ FairPlayoff

\* C37: for 3 to 6 players, once the bracket is built a champion is
\* eventually declared, provided every playable match is eventually resolved
\* by an untied duel; no bracket state is left without a playable match
\* before the Final is resolved.
C37_ChampionEventually ==
    (tournament.phase = "bracket") ~> (tournament.phase = "champion")

\* Six players and all five matches recorded: the champion is declared.
C37_Witness ==
    /\ Len(players) = 6
    /\ tournament.phase = "champion"
    /\ Len(recorded) = 5
    /\ tournament.championId = recorded[5].winnerId


\* ------------------------------------------- claims: the game ends

\* The session with 'Avanzar' pressed again and again.
SpecTimelineFair == InitTimeline /\ [][NextTimeline]_vars /\ WF_vars(advanceTime)

\* A tick either enters the tournament setup or moves the cursor on by one,
\* and the cursor of a game in progress lies inside the deck.
TickMovesCursor ==
    /\ advanceTime =>
          \/ phase' = "tournament"
          \/ /\ phase' = "game"
             /\ game'.eventIndex = game.eventIndex + 1
    /\ phase' = "game" => game'.eventIndex < Len(game'.eventDeck)

\* C38: the game terminates: every tick that does not enter the tournament
\* setup increases the event cursor by one, the cursor of a game in progress
\* stays below the deck length, so at most deck-length ticks are made, and
\* with repeated ticks the tournament setup is reached.
C38_TicksReachSetup ==
    /\ [][TickMovesCursor]_vars
    /\ <>(phase = "tournament")

\* A deck of four cards run to its end: the fourth tick found it exhausted.
C38_Witness ==
    /\ phase = "tournament"
    /\ Len(game.eventDeck) = 4
    /\ game.eventIndex = 4
    /\ game.currentDay < MaxDay


\* ------------------------------------------- claims: the order of the matches

\* The number of the round that holds the match; 0 when there is none.
RoundOf(rounds, matchId) ==
    LET hit == {r \in 1..Len(rounds) :
                    \E k \in 1..Len(rounds[r].matches) : rounds[r].matches[k].id = matchId}
    IN  IF hit = {} THEN 0 ELSE CHOOSE r \in hit : TRUE

\* The ids of the matches that feed the match.
FeedersOf(m) == {m.feedsFrom[k].matchId : k \in {k \in 1..2 : m.feedsFrom[k] # NoFeed}}

\* Every feed link points to a match of a strictly earlier round.
FeedsFromEarlierRounds(rounds) ==
    LET ms == AllMatches(rounds)
    IN  \A i \in 1..Len(ms) : \A f \in FeedersOf(ms[i]) :
            /\ RoundOf(rounds, f) >= 1
            /\ RoundOf(rounds, f) < RoundOf(rounds, ms[i].id)

\* C39: a match is resolved only while both of its slots are filled and it
\* has no winner; it is resolved after every match that feeds it and at most
\* once; and every feed link points to a match of a strictly earlier round.
C39_ResolvedInFeedOrder ==
    [][/\ recorded' # recorded =>
             LET e == recorded'[Len(recorded')]
                 m == findMatch(e.matchId)
             IN  /\ recorded' = Append(recorded, e)
                 /\ Playable(m)
                 /\ \A f \in FeedersOf(m) : RecordsOf(recorded, f) # {}
                 /\ RecordsOf(recorded, e.matchId) = {}
       /\ tournament'.rounds # tournament.rounds =>
             FeedsFromEarlierRounds(tournament'.rounds)]_vars

\* Six players: the semifinal was resolved after the two quarterfinals that
\* feed it, and the Final still waits for the first quarterfinal.
C39_Witness ==
    /\ Len(players) = 6 /\ tournament.phase = "bracket"
    /\ Len(recorded) = 3
    /\ recorded[3].matchId = "sf1"
    /\ {recorded[1].matchId, recorded[2].matchId} = {"qf2", "qf3"}
    /\ findMatch("final").player2Id = recorded[3].winnerId
    /\ findMatch("final").player1Id = NULL


\* ------------------------------------------- specification: combats of two

\* The players whose combatant checkbox is used.
Fighters == {players[1].id, players[2].id}

FightersToggle == CombatToggleAmong(Fighters)

NextCombat ==
    \/ advanceTime
    \/ openMonsterCombat
    \/ FightersToggle
    \/ adjustCombatantScore
    \/ endMonsterCombat
    \/ CombatModalOk
    \/ NotificationOk
    \/ MonsterCombatBack
    \/ skipMonster

SpecCombat == Init /\ [][NextCombat]_vars

\* ------------------------------------------- claims: the HP of a combat

\* The selected combatants and the sum of their scores.
Selected(mc) == {mc.combatantIds[i] : i \in 1..Len(mc.combatantIds)}

RECURSIVE ScoreSum(_, _)
ScoreSum(mc, pids) ==
    IF pids = {} THEN 0
    ELSE LET p == CHOOSE q \in pids : TRUE
         IN  mc.combatantScores[p] + ScoreSum(mc, pids \ {p})

\* The effective HP of the monster of the combat on the day of the combat:
\* 0 for a special-HP monster.
EffectiveHP(mc) ==
    LET hp == computeHP(getMonster(mc.monsterId), Len(players), mc.isLegendary)
    IN  IF getMonster(mc.monsterId).hp = HpNull THEN 0 ELSE hp

\* The combat state agrees with its scores.
CombatConsistent(mc, legendaryDay) ==
    /\ mc.isLegendary = legendaryDay
    /\ mc.maxHP = EffectiveHP(mc)
    /\ Selected(mc) = DOMAIN mc.combatantScores
    /\ \A p \in Selected(mc) : mc.combatantScores[p] >= 0
    /\ mc.currentHP = mc.maxHP - ScoreSum(mc, Selected(mc))

\* C40: during a monster combat, after any toggles and score adjustments,
\* every combatant score is >= 0 and currentHP = maxHP minus the sum of the
\* selected combatants' scores, maxHP being the effective HP computed when
\* the combat opened (doubled on a legendary day, 0 for a special-HP monster);
\* ending the combat is a victory exactly when that sum is >= maxHP.
C40_CombatHpFollowsScores ==
    [][/\ phase' = "monsterCombat" =>
             CombatConsistent(monsterCombat', currentEvent.name = "Monstruo Legendario")
       /\ (phase = "monsterCombat" /\ modal.kind = "none" /\ modal'.kind # "none") =>
             /\ modal'.kind \in {"defeated", "failed"}
             /\ modal'.kind = "defeated"
                    <=> ScoreSum(monsterCombat, Selected(monsterCombat)) >= monsterCombat.maxHP]_vars

\* A combat on a legendary day with two combatants who both scored, the
\* monster not yet beaten.
C40_Witness ==
    /\ phase = "monsterCombat"
    /\ monsterCombat.isLegendary
    /\ Len(monsterCombat.combatantIds) = 2
    /\ \A p \in Selected(monsterCombat) : monsterCombat.combatantScores[p] >= 1
    /\ monsterCombat.currentHP > 0
    /\ monsterCombat.currentHP < monsterCombat.maxHP

====
